---- MODULE Spec2Model ----
(***************************************************************************)
(* Verification model of the alphastream signal-derivation pipeline:       *)
(*   - pipeline/llm/rate_limiter.py   (RateLimiter, KeyRotator)            *)
(*   - pipeline/tasks/sentiment_analysis.py with the two LLM clients       *)
(*   - pipeline/tasks/ticker_identification.py                             *)
(*   - pipeline/alpha/*.py and pipeline/tasks/alpha_metrics.py             *)
(* Each subsystem has its own specification (SpecRL, SpecKR, ...) over its *)
(* own variables; the variables of the other subsystems stay at their      *)
(* initial values.                                                         *)
(***************************************************************************)
EXTENDS Integers, Sequences, FiniteSets, Bags, TLC

(***************************************************************************)
(* Bounds of the model (not program constants).                            *)
(***************************************************************************)
NumThreads == 2
MaxTime == 9
MaxPool == 3
MaxCalls == 4
MaxMarks == 2
MaxDispatch == 2
MaxClock == 5
MaxTickers == 2
MaxRuns == 3
MaxAlphaRuns == 2
MaxSteps == 12
MaxFetches == 3

Threads == 1..NumThreads
NoThread == 0

(***************************************************************************)
(* State.                                                                  *)
(***************************************************************************)
VARIABLES
  \* RateLimiter shared by the threads (SpecRL)
  rl_clock,      \* value time.monotonic() returns now
  rl_last,       \* RateLimiter._last_request_time
  rl_lock,       \* holder of RateLimiter._lock, NoThread when free
  rl_pc,         \* position of each thread inside acquire() / wait()
  rl_now,        \* each thread's local `now`
  rl_wake,       \* earliest time at which a thread's time.sleep() returns
  rl_grants,     \* history: the grants in the order they were recorded
  \* KeyRotator shared by the threads (SpecKR)
  kr_keys,       \* KeyRotator._keys
  kr_failed,     \* KeyRotator._failed_keys
  kr_index,      \* KeyRotator._index
  kr_lock,       \* holder of KeyRotator._lock, NoThread when free
  kr_pc,         \* position of each thread inside get_next() / mark_failed()
  kr_available,  \* each thread's local `available`
  kr_key,        \* each thread's local `key` (get_next) or argument (mark_failed)
  kr_entry,      \* history: the failed set as each thread's get_next() found it
  kr_returns,    \* history: the results of get_next() in order of completion
  kr_marks,      \* history: number of mark_failed() calls made
  kr_callers,    \* history: the threads that completed a get_next()
  \* sentiment analysis tasks (SpecSA)
  sa_settings,   \* settings.GEMINI_API_KEYS / OPENROUTER_API_KEYS non-empty?
  sa_clock,      \* value time.monotonic() returns now
  sa_queue,      \* analyze_article tasks waiting in the task queue (a bag)
  sa_dispatched, \* history: number of analyze_article.delay() calls made
  sa_pc,         \* position of each worker inside analyze_article
  sa_task,       \* the task each worker is running
  sa_local,      \* the local variables of each worker's analyze_article
  sa_rows,       \* table sentiment_analyses (a bag of rows)
  sa_calls,      \* history: per provider, the times of its two latest API calls
  sa_results,    \* history: how the task executions ended
  \* ticker identification tasks (SpecTI)
  ti_resolved,   \* resolved_tickers that NER + regex yield for each article
  ti_exec,       \* each execution of identify_tickers: position and locals
  ti_mentions,   \* table article_stock_mentions, committed rows (a bag)
  ti_runs,       \* history: number of identify_tickers executions started
  ti_results,    \* history: how the executions ended
  \* alpha metric tasks (SpecAlpha)
  al_numeric,    \* Python type in which the driver delivers NUMERIC columns
  al_sentiments, \* table sentiment_analyses: per article, score and age
  al_mentions,   \* table article_stock_mentions (a bag of rows)
  al_recent,     \* news_articles rows with scraped_at in the last 24 hours
  al_metrics,    \* table alpha_metrics (a bag of rows)
  al_runs,       \* history: number of alpha task executions
  al_results,    \* history: how the executions ended
  al_fetch,      \* history: how the price fetch of the latest execution failed
  \* compute_composite as a function (SpecCC)
  cc_in,         \* the arguments (expectation_gap, narrative_velocity, divergence)
  cc_out,        \* the dict returned, NoResult before the call
  \* the metric computation of the alpha tasks as a function (SpecPM)
  pm_in,         \* current and baseline sentiment, news share, price change
  pm_out,        \* the metrics computed from them, NoMetrics before
  \* RSS ingestion tasks (SpecRSS)
  rs_articles,   \* table news_articles, committed rows
  rs_exec,       \* each execution of fetch_single_feed: position and locals
  rs_scrapes,    \* scrape_article tasks sent to the queue
  rs_published,  \* new-article events published
  rs_hashed,     \* history: the candidates compute_content_hash was called for
  rs_fetches,    \* history: number of fetch_single_feed executions started
  \* TickerResolver.resolve_all as a function (SpecTR)
  tr_in,         \* the argument `entities`
  tr_out         \* the list returned, NoResolution before the call

rl_vars == <<rl_clock, rl_last, rl_lock, rl_pc, rl_now, rl_wake, rl_grants>>
kr_vars == <<kr_keys, kr_failed, kr_index, kr_lock, kr_pc, kr_available, kr_key,
             kr_entry, kr_returns, kr_marks, kr_callers>>
sa_vars == <<sa_settings, sa_clock, sa_queue, sa_dispatched, sa_pc, sa_task,
             sa_local, sa_rows, sa_calls, sa_results>>
ti_vars == <<ti_resolved, ti_exec, ti_mentions, ti_runs, ti_results>>
al_vars == <<al_numeric, al_sentiments, al_mentions, al_recent, al_metrics,
             al_runs, al_results, al_fetch>>
cc_vars == <<cc_in, cc_out>>
pm_vars == <<pm_in, pm_out>>
rs_vars == <<rs_articles, rs_exec, rs_scrapes, rs_published, rs_hashed, rs_fetches>>
tr_vars == <<tr_in, tr_out>>
vars == <<rl_vars, kr_vars, sa_vars, ti_vars, al_vars, cc_vars, pm_vars, rs_vars,
          tr_vars>>

\* what a step of one subsystem leaves alone
RLOthers == UNCHANGED <<kr_vars, sa_vars, ti_vars, al_vars, cc_vars, pm_vars,
                        rs_vars, tr_vars>>
KROthers == UNCHANGED <<rl_vars, sa_vars, ti_vars, al_vars, cc_vars, pm_vars,
                        rs_vars, tr_vars>>
SAOthers == UNCHANGED <<rl_vars, kr_vars, ti_vars, al_vars, cc_vars, pm_vars,
                        rs_vars, tr_vars>>
TIOthers == UNCHANGED <<rl_vars, kr_vars, sa_vars, al_vars, cc_vars, pm_vars,
                        rs_vars, tr_vars>>
ALOthers == UNCHANGED <<rl_vars, kr_vars, sa_vars, ti_vars, cc_vars, pm_vars,
                        rs_vars, tr_vars>>
CCOthers == UNCHANGED <<rl_vars, kr_vars, sa_vars, ti_vars, al_vars, pm_vars,
                        rs_vars, tr_vars>>
PMOthers == UNCHANGED <<rl_vars, kr_vars, sa_vars, ti_vars, al_vars, cc_vars,
                        rs_vars, tr_vars>>
RSOthers == UNCHANGED <<rl_vars, kr_vars, sa_vars, ti_vars, al_vars, cc_vars,
                        pm_vars, tr_vars>>
TROthers == UNCHANGED <<rl_vars, kr_vars, sa_vars, ti_vars, al_vars, cc_vars,
                        pm_vars, rs_vars>>

(***************************************************************************)
(* RateLimiter  (pipeline/llm/rate_limiter.py, lines 10-51)                *)
(* Time is counted in whole seconds of time.monotonic().                   *)
(***************************************************************************)
MaxRpm == 15
Interval == 60 \div MaxRpm

\* `with self._lock:` can be entered only while nobody holds the lock.
LockFreeNoMutex(holder) == TRUE
LockFree(holder) == holder = NoThread

\* sleep_time = self._interval - elapsed
SleepTimeNone(elapsed) == 0
SleepTime(elapsed) == Interval - elapsed

RLInit ==
  /\ rl_clock \in 0..Interval
  /\ rl_last = 0
  /\ rl_lock = NoThread
  /\ rl_pc = [t \in Threads |-> "idle"]
  /\ rl_now = [t \in Threads |-> 0]
  /\ rl_wake = [t \in Threads |-> 0]
  /\ rl_grants = << >>

\* the limiter while another subsystem is being exercised
RLOff == RLInit /\ rl_clock = 0

\* acquire(): `with self._lock:`
AcquireEnter(t) ==
  /\ rl_pc[t] = "idle"
  /\ LockFree(rl_lock)
  /\ rl_lock' = t
  /\ rl_pc' = [rl_pc EXCEPT ![t] = "acquire_check"]
  /\ UNCHANGED <<rl_clock, rl_last, rl_now, rl_wake, rl_grants>>
  /\ RLOthers

\* acquire(): now = time.monotonic(); elapsed = now - last; if elapsed >= interval
AcquireCheck(t) ==
  /\ rl_pc[t] = "acquire_check"
  /\ rl_now' = [rl_now EXCEPT ![t] = rl_clock]
  /\ rl_pc' = [rl_pc EXCEPT ![t] =
                 IF rl_clock - rl_last >= Interval THEN "acquire_grant"
                 ELSE "acquire_deny"]
  /\ UNCHANGED <<rl_clock, rl_last, rl_lock, rl_wake, rl_grants>>
  /\ RLOthers

\* acquire(): self._last_request_time = now; return True  (lock released)
AcquireGrant(t) ==
  /\ rl_pc[t] = "acquire_grant"
  /\ rl_last' = rl_now[t]
  /\ rl_grants' = Append(rl_grants, [thread |-> t, op |-> "acquire", ts |-> rl_now[t]])
  /\ rl_lock' = NoThread
  /\ rl_pc' = [rl_pc EXCEPT ![t] = "idle"]
  /\ UNCHANGED <<rl_clock, rl_now, rl_wake>>
  /\ RLOthers

\* acquire(): return False  (lock released, nothing written)
AcquireDeny(t) ==
  /\ rl_pc[t] = "acquire_deny"
  /\ rl_lock' = NoThread
  /\ rl_pc' = [rl_pc EXCEPT ![t] = "idle"]
  /\ UNCHANGED <<rl_clock, rl_last, rl_now, rl_wake, rl_grants>>
  /\ RLOthers

\* wait(): `with self._lock:`
WaitEnter(t) ==
  /\ rl_pc[t] = "idle"
  /\ LockFree(rl_lock)
  /\ rl_lock' = t
  /\ rl_pc' = [rl_pc EXCEPT ![t] = "wait_check"]
  /\ UNCHANGED <<rl_clock, rl_last, rl_now, rl_wake, rl_grants>>
  /\ RLOthers

\* wait(): now = time.monotonic(); elapsed = now - last;
\*         if elapsed < interval: time.sleep(interval - elapsed)
WaitCheck(t) ==
  /\ rl_pc[t] = "wait_check"
  /\ rl_now' = [rl_now EXCEPT ![t] = rl_clock]
  /\ IF rl_clock - rl_last < Interval
       THEN /\ rl_wake' = [rl_wake EXCEPT ![t] = rl_clock + SleepTime(rl_clock - rl_last)]
            /\ rl_pc' = [rl_pc EXCEPT ![t] = "wait_sleep"]
       ELSE /\ rl_wake' = rl_wake
            /\ rl_pc' = [rl_pc EXCEPT ![t] = "wait_stamp"]
  /\ UNCHANGED <<rl_clock, rl_last, rl_lock, rl_grants>>
  /\ RLOthers

\* wait(): time.sleep() returns, not before the requested time has passed
WaitWake(t) ==
  /\ rl_pc[t] = "wait_sleep"
  /\ rl_clock >= rl_wake[t]
  /\ rl_pc' = [rl_pc EXCEPT ![t] = "wait_stamp"]
  /\ UNCHANGED <<rl_clock, rl_last, rl_lock, rl_now, rl_wake, rl_grants>>
  /\ RLOthers

\* wait(): self._last_request_time = time.monotonic()  (lock released)
WaitStamp(t) ==
  /\ rl_pc[t] = "wait_stamp"
  /\ rl_last' = rl_clock
  /\ rl_grants' = Append(rl_grants, [thread |-> t, op |-> "wait", ts |-> rl_clock])
  /\ rl_lock' = NoThread
  /\ rl_pc' = [rl_pc EXCEPT ![t] = "idle"]
  /\ UNCHANGED <<rl_clock, rl_now, rl_wake>>
  /\ RLOthers

\* the monotonic clock advances
RLTick ==
  /\ rl_clock < MaxTime
  /\ rl_clock' = rl_clock + 1
  /\ UNCHANGED <<rl_last, rl_lock, rl_pc, rl_now, rl_wake, rl_grants>>
  /\ RLOthers

RLNext ==
  \/ \E t \in Threads : AcquireEnter(t)
  \/ \E t \in Threads : AcquireCheck(t)
  \/ \E t \in Threads : AcquireGrant(t)
  \/ \E t \in Threads : AcquireDeny(t)
  \/ \E t \in Threads : WaitEnter(t)
  \/ \E t \in Threads : WaitCheck(t)
  \/ \E t \in Threads : WaitWake(t)
  \/ \E t \in Threads : WaitStamp(t)
  \/ RLTick

(***************************************************************************)
(* KeyRotator  (pipeline/llm/rate_limiter.py, lines 54-119)                *)
(***************************************************************************)
KeyOrder == <<"key-a", "key-b", "key-c", "key-d", "key-e">>
AllKeys == {"key-a", "key-b", "key-c"}
NoKey == "none"

\* the pools the rotator is constructed with: the empty pool, pools of
\* distinct keys, and a pool that lists a key twice
Pools ==
  { SubSeq(KeyOrder, 1, n) : n \in 0..MaxPool } \cup { <<"key-a", "key-b", "key-a">> }

Range(q) == { q[i] : i \in 1..Len(q) }

\* available = [k for k in self._keys if k not in self._failed_keys]
AvailableUnfiltered(keys, failed) == keys
Available(keys, failed) == SelectSeq(keys, LAMBDA k : k \notin failed)

\* self._index = self._index % len(available)
WrapIndexStuck(index, n) == 0
WrapIndex(index, n) == index % n

KRInit ==
  /\ kr_keys \in Pools
  /\ kr_failed = {}
  /\ kr_index = 0
  /\ kr_lock = NoThread
  /\ kr_pc = [t \in Threads |-> "idle"]
  /\ kr_available = [t \in Threads |-> << >>]
  /\ kr_key = [t \in Threads |-> NoKey]
  /\ kr_entry = [t \in Threads |-> {}]
  /\ kr_returns = << >>
  /\ kr_marks = 0
  /\ kr_callers = {}

\* the rotator while another subsystem is being exercised
KROff == KRInit /\ kr_keys = << >>

\* get_next(): `with self._lock:`
GetNextEnter(t) ==
  /\ kr_pc[t] = "idle"
  /\ Len(kr_returns) < MaxCalls
  /\ LockFree(kr_lock)
  /\ kr_lock' = t
  /\ kr_pc' = [kr_pc EXCEPT ![t] = "get_keys"]
  /\ UNCHANGED <<kr_keys, kr_failed, kr_index, kr_available, kr_key, kr_entry,
                 kr_returns, kr_marks>>
  /\ kr_callers' = kr_callers
  /\ KROthers

\* a placeholder returned where the error should be raised
NoKeysReturnsNone(failed) ==
  [raised |-> FALSE, key |-> NoKey, entry |-> failed, failed |-> failed]

\* how a get_next() call on an empty pool ends:
\* raise ValueError("No API keys configured")
NoKeysError(failed) ==
  [raised |-> TRUE, key |-> NoKey, entry |-> failed, failed |-> failed]

\* get_next(): if not self._keys: raise ValueError("No API keys configured")
GetNextRaise(t) ==
  /\ kr_pc[t] = "get_keys"
  /\ kr_keys = << >>
  /\ kr_returns' = Append(kr_returns, NoKeysError(kr_failed))
  /\ kr_lock' = NoThread
  /\ kr_pc' = [kr_pc EXCEPT ![t] = "idle"]
  /\ UNCHANGED <<kr_keys, kr_failed, kr_index, kr_available, kr_key, kr_entry, kr_marks>>
  /\ kr_callers' = kr_callers \cup {t}
  /\ KROthers

\* get_next(): available = [...]; if not available: clear the failed set,
\*             available = self._keys
GetNextAvailable(t) ==
  /\ kr_pc[t] = "get_keys"
  /\ kr_keys # << >>
  /\ kr_entry' = [kr_entry EXCEPT ![t] = kr_failed]
  /\ IF Available(kr_keys, kr_failed) = << >>
       THEN /\ kr_failed' = {}
            /\ kr_available' = [kr_available EXCEPT ![t] = kr_keys]
       ELSE /\ kr_failed' = kr_failed
            /\ kr_available' = [kr_available EXCEPT ![t] = Available(kr_keys, kr_failed)]
  /\ kr_pc' = [kr_pc EXCEPT ![t] = "get_wrap"]
  /\ UNCHANGED <<kr_keys, kr_index, kr_lock, kr_key, kr_returns, kr_marks>>
  /\ kr_callers' = kr_callers
  /\ KROthers

\* get_next(): self._index = self._index % len(available)
GetNextWrap(t) ==
  /\ kr_pc[t] = "get_wrap"
  /\ kr_index' = WrapIndex(kr_index, Len(kr_available[t]))
  /\ kr_pc' = [kr_pc EXCEPT ![t] = "get_pick"]
  /\ UNCHANGED <<kr_keys, kr_failed, kr_lock, kr_available, kr_key, kr_entry,
                 kr_returns, kr_marks>>
  /\ kr_callers' = kr_callers
  /\ KROthers

\* get_next(): key = available[self._index]   (IndexError when out of range)
GetNextPick(t) ==
  /\ kr_pc[t] = "get_pick"
  /\ kr_key' = [kr_key EXCEPT ![t] =
                  IF kr_index < Len(kr_available[t])
                    THEN kr_available[t][kr_index + 1] ELSE NoKey]
  /\ kr_pc' = [kr_pc EXCEPT ![t] = "get_return"]
  /\ UNCHANGED <<kr_keys, kr_failed, kr_index, kr_lock, kr_available, kr_entry,
                 kr_returns, kr_marks>>
  /\ kr_callers' = kr_callers
  /\ KROthers

\* get_next(): self._index += 1; return key   (lock released)
GetNextReturn(t) ==
  /\ kr_pc[t] = "get_return"
  /\ kr_index' = IF kr_key[t] = NoKey THEN kr_index ELSE kr_index + 1
  /\ kr_returns' = Append(kr_returns,
       [raised |-> kr_key[t] = NoKey, key |-> kr_key[t],
        entry |-> kr_entry[t], failed |-> kr_failed])
  /\ kr_lock' = NoThread
  /\ kr_pc' = [kr_pc EXCEPT ![t] = "idle"]
  /\ kr_key' = [kr_key EXCEPT ![t] = NoKey]
  /\ kr_available' = [kr_available EXCEPT ![t] = << >>]
  /\ kr_entry' = [kr_entry EXCEPT ![t] = {}]
  /\ UNCHANGED <<kr_keys, kr_failed, kr_marks>>
  /\ kr_callers' = kr_callers \cup {t}
  /\ KROthers

\* mark_failed(key): `with self._lock:`
MarkFailedEnter(t, k) ==
  /\ kr_pc[t] = "idle"
  /\ kr_marks < MaxMarks
  /\ LockFree(kr_lock)
  /\ kr_lock' = t
  /\ kr_key' = [kr_key EXCEPT ![t] = k]
  /\ kr_marks' = kr_marks + 1
  /\ kr_pc' = [kr_pc EXCEPT ![t] = "mark_add"]
  /\ UNCHANGED <<kr_keys, kr_failed, kr_index, kr_available, kr_entry, kr_returns>>
  /\ kr_callers' = kr_callers
  /\ KROthers

\* mark_failed(key): self._failed_keys.add(key)   (lock released)
MarkFailedAdd(t) ==
  /\ kr_pc[t] = "mark_add"
  /\ kr_failed' = kr_failed \cup {kr_key[t]}
  /\ kr_lock' = NoThread
  /\ kr_key' = [kr_key EXCEPT ![t] = NoKey]
  /\ kr_pc' = [kr_pc EXCEPT ![t] = "idle"]
  /\ UNCHANGED <<kr_keys, kr_index, kr_available, kr_entry, kr_returns, kr_marks>>
  /\ kr_callers' = kr_callers
  /\ KROthers

KRNext ==
  \/ \E t \in Threads : GetNextEnter(t)
  \/ \E t \in Threads : GetNextRaise(t)
  \/ \E t \in Threads : GetNextAvailable(t)
  \/ \E t \in Threads : GetNextWrap(t)
  \/ \E t \in Threads : GetNextPick(t)
  \/ \E t \in Threads : GetNextReturn(t)
  \/ \E t \in Threads, k \in AllKeys : MarkFailedEnter(t, k)
  \/ \E t \in Threads : MarkFailedAdd(t)

(***************************************************************************)
(* Sentiment ensemble  (pipeline/tasks/sentiment_analysis.py,              *)
(* pipeline/llm/gemini_client.py, pipeline/llm/openrouter_client.py,       *)
(* pipeline/ml/finbert.py).  Scores and confidences are in thousandths.    *)
(***************************************************************************)
MAX_RETRIES == 2

Articles == {"article-1", "article-2"}   \* rows of news_articles with full_text

\* the article the sentiment tasks are dispatched for
SAArticles == {"article-1"}
NoTextArticle == "article-3"             \* a row whose full_text is NULL or empty
MissingArticle == "article-4"            \* an id with no row in news_articles
ArticleIds == SAArticles \cup {NoTextArticle, MissingArticle}

Tasks == [article : ArticleIds, retries : 0..MAX_RETRIES]

\* the task slot of a worker that runs nothing
NoTask == [article |-> "none", retries |-> 0]

\* the analyze_article executions that can be in progress at once
Workers == {"worker-1", "worker-2"}

Providers == {"gemini", "openrouter"}

\* Python's None and a present value
None == << >>
Some(x) == <<x>>

\* FinBERTAnalyzer.analyze(): the label mapped to +1 / -1 / 0 with the
\* winning class probability, or the stub when transformers is not installed
FinbertResults ==
  { [score |-> 1000, confidence |-> 900],
    [score |-> 0, confidence |-> 0] }

\* what the provider API call of analyze_sentiment() does; json.loads accepts
\* any numbers in the object (here 5.0 and 1.5), nothing validates them
Replies ==
  { [kind |-> "json_dict", score |-> 500, conf |-> 800],
    [kind |-> "json_dict", score |-> 5000, conf |-> 1500],
    [kind |-> "api_error", score |-> 0, conf |-> 0],
    [kind |-> "bad_json", score |-> 0, conf |-> 0],
    [kind |-> "json_null", score |-> 0, conf |-> 0],
    [kind |-> "json_list", score |-> 0, conf |-> 0] }

NoneValue == [type |-> "none", score |-> 0, conf |-> 0, expl |-> "none", timeline |-> "none"]

\* _get_fallback_response(error)
FallbackResponse ==
  [type |-> "dict", score |-> 0, conf |-> 0, expl |-> "Analysis failed",
   timeline |-> "unknown"]

\* the value analyze_sentiment() returns for a reply: the parsed JSON, or the
\* fallback dict when the API call or the JSON parsing raised
AnalyzeSentiment(reply) ==
  CASE reply.kind = "json_dict" ->
         [type |-> "dict", score |-> reply.score, conf |-> reply.conf, expl |-> "llm",
          timeline |-> "short_term"]
    [] reply.kind \in {"api_error", "bad_json"} -> FallbackResponse
    [] reply.kind = "json_null" -> NoneValue
    [] OTHER -> [type |-> "list", score |-> 0, conf |-> 0, expl |-> "none",
                 timeline |-> "none"]

\* the weights of the two scores exchanged
EnsembleSwapped(finbert_score, llm_score) == (6 * finbert_score + 4 * llm_score) \div 10

\* ensemble = 0.4 * finbert_score + 0.6 * llm_score
Ensemble(finbert_score, llm_score) == (4 * finbert_score + 6 * llm_score) \div 10

\* confidence = (finbert_confidence + llm_result.get("confidence", 0.0)) / 2
MeanConfidence(finbert_confidence, llm_confidence) ==
  (finbert_confidence + llm_confidence) \div 2

\* the two latest entries of a call history
LastTwo(q) == IF Len(q) > 2 THEN Tail(q) ELSE q

\* how a provider call ended, as the claims class it: a JSON object, a failed
\* call (error or unparseable text), or JSON that is no object
Outcome(reply) ==
  CASE reply.kind = "json_dict" -> "ok"
    [] reply.kind \in {"api_error", "bad_json"} -> "failed"
    [] OTHER -> reply.kind

FreshLocal ==
  [finbert_score |-> 0, finbert_confidence |-> 0,
   llm_result |-> NoneValue, llm_score |-> None, llm_provider |-> None,
   wake |-> 0,
   gemini |-> "not_called", openrouter |-> "not_called"]

SAStart ==
  /\ sa_settings \in [gemini : BOOLEAN, openrouter : BOOLEAN]
  /\ sa_queue = [k \in Tasks |-> 0]
  /\ sa_dispatched = 0
  /\ sa_pc = [w \in Workers |-> "idle"]
  /\ sa_task = [w \in Workers |-> NoTask]
  /\ sa_local = [w \in Workers |-> FreshLocal]
  /\ sa_rows = EmptyBag
  /\ sa_calls = [p \in Providers |-> << >>]
  /\ sa_results = {}

\* a worker process that has been up for at least one limiter interval
SAInit ==
  /\ SAStart
  /\ sa_clock = Interval

\* the sentiment tasks while another subsystem is being exercised
SAOff ==
  /\ SAInit
  /\ sa_settings = [gemini |-> FALSE, openrouter |-> FALSE]

Enqueue(queue, k) == [queue EXCEPT ![k] = @ + 1]

\* the article ids analyze_pending selects: full_text IS NOT NULL AND
\* id NOT IN (SELECT article_id FROM sentiment_analyses)
PendingArticles ==
  { a \in SAArticles : \A row \in BagToSet(sa_rows) : row.article_id # a }

\* analyze_pending(): analyze_article.delay(id) for every selected row
AnalyzePending ==
  /\ PendingArticles # {}
  /\ sa_dispatched + Cardinality(PendingArticles) <= MaxDispatch
  /\ sa_queue' = [k \in Tasks |->
                    IF k.article \in PendingArticles /\ k.retries = 0
                      THEN sa_queue[k] + 1 ELSE sa_queue[k]]
  /\ sa_dispatched' = sa_dispatched + Cardinality(PendingArticles)
  /\ UNCHANGED <<sa_settings, sa_clock, sa_pc, sa_task, sa_local, sa_rows,
                 sa_calls, sa_results>>
  /\ SAOthers

\* scrape_article / scrape_subreddits / _store_research_articles:
\* analyze_article.delay(article_id)
ScraperDispatch(a) ==
  /\ sa_dispatched < MaxDispatch
  /\ sa_queue' = Enqueue(sa_queue, [article |-> a, retries |-> 0])
  /\ sa_dispatched' = sa_dispatched + 1
  /\ UNCHANGED <<sa_settings, sa_clock, sa_pc, sa_task, sa_local, sa_rows,
                 sa_calls, sa_results>>
  /\ SAOthers

Finish(w, status) ==
  /\ sa_results' = sa_results \cup {status}
  /\ sa_pc' = [sa_pc EXCEPT ![w] = "idle"]
  /\ sa_task' = [sa_task EXCEPT ![w] = NoTask]
  /\ sa_local' = [sa_local EXCEPT ![w] = FreshLocal]

\* the rate limiter of a client constructed for this call:
\* RateLimiter.__init__ sets _last_request_time = 0.0
NewLimiterLast == 0

\* where analyze_article continues once the classifier has run:
\*   if settings.GEMINI_API_KEYS: ... (lines 98-106)
\*   if llm_result is None and settings.OPENROUTER_API_KEYS: ... (lines 110-119)
AfterClassifier ==
  IF sa_settings.gemini THEN "gemini"
  ELSE IF sa_settings.openrouter THEN "openrouter"
  ELSE "persist"

\* where analyze_article continues once provider p has returned value
AfterProvider(p, value) ==
  IF p = "gemini" /\ value.type = "none" /\ sa_settings.openrouter THEN "openrouter"
  ELSE "persist"

\* a worker takes a task; SELECT ... FROM news_articles WHERE id = :id finds
\* a row with full_text; finbert_result = FinBERTAnalyzer().analyze(full_text)
TaskStart(w, k, r) ==
  /\ sa_pc[w] = "idle"
  /\ sa_queue[k] > 0
  /\ k.article \in SAArticles
  /\ sa_queue' = [sa_queue EXCEPT ![k] = @ - 1]
  /\ sa_task' = [sa_task EXCEPT ![w] = k]
  /\ sa_local' = [sa_local EXCEPT ![w] =
                    [FreshLocal EXCEPT !.finbert_score = r.score,
                                       !.finbert_confidence = r.confidence]]
  /\ sa_pc' = [sa_pc EXCEPT ![w] = AfterClassifier]
  /\ UNCHANGED <<sa_settings, sa_clock, sa_dispatched, sa_rows, sa_calls, sa_results>>
  /\ SAOthers

\* FinBERTAnalyzer._load_model(): from_pretrained() raises OSError (model files
\* missing or corrupt, download failed); `except ImportError` does not catch
\* it, analyze() and analyze_article (line 88, outside every try) propagate it
TaskClassifierRaises(w, k) ==
  /\ sa_pc[w] = "idle"
  /\ sa_queue[k] > 0
  /\ k.article \in SAArticles
  /\ sa_queue' = [sa_queue EXCEPT ![k] = @ - 1]
  /\ sa_results' = sa_results \cup {"classifier_error"}
  /\ UNCHANGED <<sa_settings, sa_clock, sa_dispatched, sa_pc, sa_task, sa_local,
                 sa_rows, sa_calls>>
  /\ SAOthers

\* if not row: return {"status": "not_found"}
TaskNotFound(w, k) ==
  /\ sa_pc[w] = "idle"
  /\ sa_queue[k] > 0
  /\ k.article = MissingArticle
  /\ sa_queue' = [sa_queue EXCEPT ![k] = @ - 1]
  /\ sa_results' = sa_results \cup {"not_found"}
  /\ UNCHANGED <<sa_settings, sa_clock, sa_dispatched, sa_pc, sa_task, sa_local,
                 sa_rows, sa_calls>>
  /\ SAOthers

\* if not full_text: return {"status": "no_text"}
TaskNoText(w, k) ==
  /\ sa_pc[w] = "idle"
  /\ sa_queue[k] > 0
  /\ k.article = NoTextArticle
  /\ sa_queue' = [sa_queue EXCEPT ![k] = @ - 1]
  /\ sa_results' = sa_results \cup {"no_text"}
  /\ UNCHANGED <<sa_settings, sa_clock, sa_dispatched, sa_pc, sa_task, sa_local,
                 sa_rows, sa_calls>>
  /\ SAOthers

\* client = GeminiClient(keys) / OpenRouterClient(keys); analyze_sentiment()
\* enters self._rate_limiter.wait(), which finds elapsed < interval and sleeps
ProviderSleep(w, p) ==
  /\ sa_pc[w] = p
  /\ sa_clock - NewLimiterLast < Interval
  /\ sa_local' = [sa_local EXCEPT ![w].wake =
                    sa_clock + SleepTime(sa_clock - NewLimiterLast)]
  /\ sa_pc' = [sa_pc EXCEPT ![w] = p \o "_sleep"]
  /\ UNCHANGED <<sa_settings, sa_clock, sa_queue, sa_dispatched, sa_task, sa_rows,
                 sa_calls, sa_results>>
  /\ SAOthers

\* has wait() of worker w's client for p returned?  Either it found the
\* interval elapsed, or its time.sleep() is over
WaitReturns(w, p) ==
  \/ sa_pc[w] = p /\ sa_clock - NewLimiterLast >= Interval
  \/ sa_pc[w] = p \o "_sleep" /\ sa_clock >= sa_local[w].wake

\* wait() returns, the client's new KeyRotator hands out its first key, the
\* API is called and analyze_sentiment() returns; then
\*   llm_score = llm_result.get("sentiment_score", 0.0); llm_provider = p
\* which raises AttributeError (caught, logged) when the value is no dict
ProviderCall(w, p, reply) ==
  /\ WaitReturns(w, p)
  /\ sa_calls' = [sa_calls EXCEPT ![p] = LastTwo(Append(@, sa_clock))]
  /\ LET value == AnalyzeSentiment(reply)
         seen == [sa_local[w] EXCEPT !.llm_result = value,
                                     !.wake = 0,
                                     ![p] = Outcome(reply)]
     IN  /\ sa_local' = [sa_local EXCEPT ![w] =
                           IF value.type = "dict"
                             THEN [seen EXCEPT !.llm_score = Some(value.score),
                                               !.llm_provider = Some(p)]
                             ELSE seen]
         /\ sa_pc' = [sa_pc EXCEPT ![w] = AfterProvider(p, value)]
  /\ UNCHANGED <<sa_settings, sa_clock, sa_queue, sa_dispatched, sa_task, sa_rows,
                 sa_results>>
  /\ SAOthers

\* lines 123-134: the combination rule
EnsembleScore(l) ==
  IF l.llm_score # None THEN Ensemble(l.finbert_score, l.llm_score[1])
  ELSE l.finbert_score

EnsembleConfidence(l) ==
  IF l.llm_score # None THEN MeanConfidence(l.finbert_confidence, l.llm_result.conf)
  ELSE l.finbert_confidence

\* lines 136-143: `if llm_result:` is true for a dict with fields and for a
\* non-empty list
Truthy(value) == value.type \in {"dict", "list"}

Explanation(l) ==
  IF Truthy(l.llm_result) THEN l.llm_result.expl ELSE "FinBERT analysis"

ImpactTimeline(l) ==
  IF Truthy(l.llm_result) THEN l.llm_result.timeline ELSE "unknown"

\* the row INSERTed into sentiment_analyses (lines 147-169)
NewRow(w) ==
  LET l == sa_local[w]
  IN  [article_id |-> sa_task[w].article,
       sentiment_score |-> EnsembleScore(l),
       confidence |-> EnsembleConfidence(l),
       explanation |-> Explanation(l),
       impact_timeline |-> ImpactTimeline(l),
       finbert_score |-> l.finbert_score,
       llm_score |-> l.llm_score,
       llm_provider |-> l.llm_provider]

\* llm_result.get("explanation", ...) on a non-empty list raises
\* AttributeError outside every try block: the task fails
TaskCrash(w) ==
  /\ sa_pc[w] = "persist"
  /\ sa_local[w].llm_result.type = "list"
  /\ Finish(w, "crashed")
  /\ UNCHANGED <<sa_settings, sa_clock, sa_queue, sa_dispatched, sa_rows, sa_calls>>
  /\ SAOthers

\* INSERT INTO sentiment_analyses ...; db.commit(); return {"status": "success"}
PersistOk(w) ==
  /\ sa_pc[w] = "persist"
  /\ sa_local[w].llm_result.type # "list"
  /\ sa_rows' = sa_rows (+) SetToBag({NewRow(w)})
  /\ Finish(w, "success")
  /\ UNCHANGED <<sa_settings, sa_clock, sa_queue, sa_dispatched, sa_calls>>
  /\ SAOthers

\* self.retry() never counting the attempt
SameAttempt(k) == k

\* self.retry(): the message queued again carries request.retries + 1
NextAttempt(k) == [k EXCEPT !.retries = @ + 1]

\* the INSERT or the commit raises: raise self.retry(exc=exc) queues the task
\* again while retries < max_retries
PersistRetry(w) ==
  /\ sa_pc[w] = "persist"
  /\ sa_local[w].llm_result.type # "list"
  /\ sa_task[w].retries < MAX_RETRIES
  /\ sa_queue' = Enqueue(sa_queue, NextAttempt(sa_task[w]))
  /\ Finish(w, "retry")
  /\ UNCHANGED <<sa_settings, sa_clock, sa_dispatched, sa_rows, sa_calls>>
  /\ SAOthers

\* the INSERT raises on the last attempt: self.retry() re-raises, the task fails
PersistGiveUp(w) ==
  /\ sa_pc[w] = "persist"
  /\ sa_local[w].llm_result.type # "list"
  /\ sa_task[w].retries = MAX_RETRIES
  /\ Finish(w, "persist_failed")
  /\ UNCHANGED <<sa_settings, sa_clock, sa_queue, sa_dispatched, sa_rows, sa_calls>>
  /\ SAOthers

\* the monotonic clock advances
SATick ==
  /\ sa_clock < MaxClock
  /\ sa_clock' = sa_clock + 1
  /\ UNCHANGED <<sa_settings, sa_queue, sa_dispatched, sa_pc, sa_task, sa_local,
                 sa_rows, sa_calls, sa_results>>
  /\ SAOthers

\* the tasks in a worker process that has been up for a limiter interval or
\* more (the clock stands at Interval): no wait() of a new client sleeps
SANext ==
  \/ AnalyzePending
  \/ \E a \in ArticleIds : ScraperDispatch(a)
  \/ \E w \in Workers, k \in Tasks, r \in FinbertResults : TaskStart(w, k, r)
  \/ \E w \in Workers, k \in Tasks : TaskClassifierRaises(w, k)
  \/ \E w \in Workers, k \in Tasks : TaskNotFound(w, k)
  \/ \E w \in Workers, k \in Tasks : TaskNoText(w, k)
  \/ \E w \in Workers, p \in Providers, reply \in Replies : ProviderCall(w, p, reply)
  \/ \E w \in Workers : TaskCrash(w)
  \/ \E w \in Workers : PersistOk(w)
  \/ \E w \in Workers : PersistRetry(w)
  \/ \E w \in Workers : PersistGiveUp(w)

\* the task from dispatch to its end with every way it can fail, for one
\* classifier output and the replies that lead to a record or to a crash;
\* WorkerStep is what the worker processes do, as opposed to the producers
RetryReplies == { r \in Replies : r.kind \in {"json_null", "json_list"} }
RetryFinbert == { r \in FinbertResults : r.confidence = 0 }

WorkerStep ==
  \/ \E w \in Workers, k \in Tasks, r \in RetryFinbert : TaskStart(w, k, r)
  \/ \E w \in Workers, k \in Tasks : TaskClassifierRaises(w, k)
  \/ \E w \in Workers, k \in Tasks : TaskNotFound(w, k)
  \/ \E w \in Workers, k \in Tasks : TaskNoText(w, k)
  \/ \E w \in Workers, p \in Providers, reply \in RetryReplies : ProviderCall(w, p, reply)
  \/ \E w \in Workers : TaskCrash(w)
  \/ \E w \in Workers : PersistOk(w)
  \/ \E w \in Workers : PersistRetry(w)
  \/ \E w \in Workers : PersistGiveUp(w)

SARNext ==
  \/ \E a \in ArticleIds : ScraperDispatch(a)
  \/ WorkerStep

\* the provider stage with the clock running: tasks for articles with text,
\* a database that does not fail, replies that are a JSON object or null
TimedReplies == { r \in Replies : r.kind \in {"json_dict", "json_null"} }
TimedFinbert == { r \in FinbertResults : r.confidence = 0 }

SATNext ==
  \/ \E a \in SAArticles : ScraperDispatch(a)
  \/ \E w \in Workers, k \in Tasks, r \in TimedFinbert : TaskStart(w, k, r)
  \/ \E w \in Workers, p \in Providers : ProviderSleep(w, p)
  \/ \E w \in Workers, p \in Providers, reply \in TimedReplies : ProviderCall(w, p, reply)
  \/ \E w \in Workers : PersistOk(w)
  \/ SATick

(***************************************************************************)
(* Ticker identification  (pipeline/tasks/ticker_identification.py)        *)
(* article_stock_mentions has a primary key on id only                     *)
(* (001_initial_schema.py, lines 125-150).  Each execution writes inside   *)
(* its own transaction: its INSERTs become visible to the other execution  *)
(* at db.commit().                                                         *)
(***************************************************************************)
Executions == {"exec-1", "exec-2"}

Tickers == {"TCS", "INFY", "ZZZ"}

NoStock == "none"

\* SELECT id FROM stocks WHERE ticker = :ticker ("ZZZ" has no row)
StockOf(ticker) ==
  CASE ticker = "TCS" -> "stock-1"
    [] ticker = "INFY" -> "stock-2"
    [] OTHER -> NoStock

\* resolved_tickers: `if ticker and ticker not in resolved_tickers` keeps the
\* list free of repetitions
ResolvedLists ==
  { q \in UNION { [1..n -> Tickers] : n \in 0..MaxTickers } :
      \A i, j \in 1..Len(q) : i # j => q[i] # q[j] }

IdleExec ==
  [pc |-> "idle", article |-> "none", todo |-> << >>, stock |-> NoStock, pending |-> {}]

TIInit ==
  /\ ti_resolved \in [Articles -> ResolvedLists]
  /\ ti_exec = [x \in Executions |-> IdleExec]
  /\ ti_mentions = EmptyBag
  /\ ti_runs = 0
  /\ ti_results = {}

TIOff ==
  /\ ti_resolved = [a \in Articles |-> << >>]
  /\ ti_exec = [x \in Executions |-> IdleExec]
  /\ ti_mentions = EmptyBag
  /\ ti_runs = 0
  /\ ti_results = {}

\* identify_tickers(article_id) for an article with full_text: lines 69-107
\* compute resolved_tickers, line 109 opens the session
TIStart(x, a) ==
  /\ ti_exec[x].pc = "idle"
  /\ ti_runs < MaxRuns
  /\ ti_runs' = ti_runs + 1
  /\ ti_exec' = [ti_exec EXCEPT ![x] =
                   [IdleExec EXCEPT !.pc = "loop", !.article = a, !.todo = ti_resolved[a]]]
  /\ UNCHANGED <<ti_resolved, ti_mentions, ti_results>>
  /\ TIOthers

\* lines 76-82: return {"status": "not_found"} / {"status": "no_text"}
TIReturnEarly(x, a) ==
  /\ ti_exec[x].pc = "idle"
  /\ ti_runs < MaxRuns
  /\ a \in {MissingArticle, NoTextArticle}
  /\ ti_runs' = ti_runs + 1
  /\ ti_results' = ti_results \cup {IF a = MissingArticle THEN "not_found" ELSE "no_text"}
  /\ UNCHANGED <<ti_resolved, ti_exec, ti_mentions>>
  /\ TIOthers

\* lines 110-119: SELECT id FROM stocks ...; `if not stock_row: continue`
TISelectStock(x) ==
  /\ ti_exec[x].pc = "loop"
  /\ ti_exec[x].todo # << >>
  /\ LET stock_id == StockOf(Head(ti_exec[x].todo))
     IN  ti_exec' = [ti_exec EXCEPT ![x] =
                       IF stock_id = NoStock
                         THEN [@ EXCEPT !.todo = Tail(@)]
                         ELSE [@ EXCEPT !.stock = stock_id, !.pc = "check"]]
  /\ UNCHANGED <<ti_resolved, ti_mentions, ti_runs, ti_results>>
  /\ TIOthers

MentionRow(x) == [article_id |-> ti_exec[x].article, stock_id |-> ti_exec[x].stock]

\* the rows the SELECT of execution x sees: the committed ones and its own
Visible(x) == BagToSet(ti_mentions) \cup ti_exec[x].pending

\* lines 122-131: SELECT id FROM article_stock_mentions WHERE article_id = ...
\* AND stock_id = ...; `if existing: continue`
TISelectExisting(x) ==
  /\ ti_exec[x].pc = "check"
  /\ ti_exec' = [ti_exec EXCEPT ![x] =
                   IF MentionRow(x) \in Visible(x)
                     THEN [@ EXCEPT !.todo = Tail(@), !.stock = NoStock, !.pc = "loop"]
                     ELSE [@ EXCEPT !.pc = "insert"]]
  /\ UNCHANGED <<ti_resolved, ti_mentions, ti_runs, ti_results>>
  /\ TIOthers

\* lines 139-154: INSERT INTO article_stock_mentions (...)
TIInsert(x) ==
  /\ ti_exec[x].pc = "insert"
  /\ ti_exec' = [ti_exec EXCEPT ![x] =
                   [@ EXCEPT !.pending = @ \cup {MentionRow(x)},
                             !.todo = Tail(@), !.stock = NoStock, !.pc = "loop"]]
  /\ UNCHANGED <<ti_resolved, ti_mentions, ti_runs, ti_results>>
  /\ TIOthers

\* line 156: db.commit(); line 163: return {"status": "success"}
TICommit(x) ==
  /\ ti_exec[x].pc = "loop"
  /\ ti_exec[x].todo = << >>
  /\ ti_mentions' = ti_mentions (+) SetToBag(ti_exec[x].pending)
  /\ ti_exec' = [ti_exec EXCEPT ![x] = IdleExec]
  /\ ti_results' = ti_results \cup {"success"}
  /\ UNCHANGED <<ti_resolved, ti_runs>>
  /\ TIOthers

TINext ==
  \/ \E x \in Executions, a \in Articles : TIStart(x, a)
  \/ \E x \in Executions, a \in ArticleIds : TIReturnEarly(x, a)
  \/ \E x \in Executions : TISelectStock(x)
  \/ \E x \in Executions : TISelectExisting(x)
  \/ \E x \in Executions : TIInsert(x)
  \/ \E x \in Executions : TICommit(x)

(***************************************************************************)
(* Composite signal  (pipeline/alpha/composite_signal.py)                  *)
(* Sub-metrics are counted in ten-thousandths (10000 is 1.0); the weights  *)
(* are hundredths, so the composite score, the thresholds and the          *)
(* conviction are counted in millionths (1000000 is 1.0).  The arithmetic  *)
(* is exact; the rounding of IEEE doubles is not represented.              *)
(***************************************************************************)
STRONG_BUY_THRESHOLD == 500000
BUY_THRESHOLD == 200000
SELL_THRESHOLD == -200000
STRONG_SELL_THRESHOLD == -500000

\* the weights 0.45, 0.30, 0.25 in hundredths
WeightEG == 45
WeightNV == 30
WeightDiv == 25

\* 1.0 in millionths
One == 1000000

Abs(x) == IF x < 0 THEN -x ELSE x
Min(a, b) == IF a < b THEN a ELSE b
Max(a, b) == IF a > b THEN a ELSE b

\* the comparison of the threshold chain: composite_score > THRESHOLD
ExceedsOrEqual(score, threshold) == score >= threshold
Exceeds(score, threshold) == score > threshold

\* 0.45 * expectation_gap + 0.30 * narrative_velocity + 0.25 * divergence
CompositeScore(eg, nv, div) == WeightEG * eg + WeightNV * nv + WeightDiv * div

\* the if / elif chain of lines 47-56
Signal(composite_score) ==
  IF Exceeds(composite_score, STRONG_BUY_THRESHOLD) THEN "strong_buy"
  ELSE IF Exceeds(composite_score, BUY_THRESHOLD) THEN "buy"
  ELSE IF Exceeds(composite_score, SELL_THRESHOLD) THEN "hold"
  ELSE IF Exceeds(composite_score, STRONG_SELL_THRESHOLD) THEN "sell"
  ELSE "strong_sell"

\* conviction = min(abs(composite_score), 1.0)
Conviction(composite_score) == Min(Abs(composite_score), One)

compute_composite(eg, nv, div) ==
  LET composite_score == CompositeScore(eg, nv, div)
  IN  [composite_score |-> composite_score,
       signal |-> Signal(composite_score),
       conviction |-> Conviction(composite_score)]

\* the argument values tried: multiples of 0.1 up to MaxSteps tenths either way
CompositeInputs == { 1000 * k : k \in (-MaxSteps)..MaxSteps }

NoResult == [composite_score |-> 0, signal |-> "none", conviction |-> 0]

CCInit ==
  /\ cc_in \in [eg : CompositeInputs, nv : CompositeInputs, div : CompositeInputs]
  /\ cc_out = NoResult

CCOff ==
  /\ cc_in = [eg |-> 0, nv |-> 0, div |-> 0]
  /\ cc_out = NoResult

\* result = compute_composite(expectation_gap, narrative_velocity, divergence)
CallComputeComposite ==
  /\ cc_out = NoResult
  /\ cc_out' = compute_composite(cc_in.eg, cc_in.nv, cc_in.div)
  /\ UNCHANGED cc_in
  /\ CCOthers

CCNext == CallComputeComposite

(***************************************************************************)
(* Alpha metric tasks  (pipeline/tasks/alpha_metrics.py)                   *)
(* Sentiment scores, news shares, price changes and the three sub-metrics  *)
(* are counted in ten-thousandths; quotients are rounded to the nearest    *)
(* unit.  A task execution is one transaction over tables that the alpha   *)
(* tasks only read, so it is one step.                                     *)
(***************************************************************************)
\* 9.9999, the default bound of _clamp
CLAMP_MAX == 99999

\* _clamp(value, min_val, max_val)
Clamp(value, min_val, max_val) == Max(min_val, Min(max_val, value))

\* a sub-metric stored as computed
ClampMetricNone(value) == value

\* _clamp(value) applied to a sub-metric (ten-thousandths)
ClampMetric(value) == Clamp(value, -CLAMP_MAX, CLAMP_MAX)

\* _clamp(composite["composite_score"]) (millionths)
ClampComposite(value) == Clamp(value, -(100 * CLAMP_MAX), 100 * CLAMP_MAX)

\* table stocks: two stocks of one sector; a tracked sector without stocks
AlphaStocks == {"stock-1", "stock-2"}
MissingStock == "stock-9"
Sectors == {"Information Technology", "Telecom"}
SectorOf(stock_id) == "Information Technology"
StocksIn(sector) == IF sector = "Information Technology" THEN AlphaStocks ELSE {}

\* the value of the stock_id column of a sector row
Null == "NULL"

\* sentiment_analyses.sentiment_score values, and the age of analyzed_at:
\* within 24 hours ("day"), within 7 days ("week"), or no row ("none")
AlphaScores == {10000, -6000}
NoRecord == [score |-> 0, age |-> "none"]
SentimentCells == {NoRecord} \cup [score : AlphaScores, age : {"day", "week"}]
Day == {"day"}
Week == {"day", "week"}

Mention(a, s) == [article_id |-> a, stock_id |-> s]

\* contents of article_stock_mentions; the table has no unique constraint, so
\* a pair can be present twice
MentionTables ==
  { EmptyBag,
    SetToBag({Mention("article-1", "stock-1")}),
    SetToBag({Mention("article-1", "stock-1"), Mention("article-2", "stock-1")}),
    SetToBag({Mention("article-1", "stock-1"), Mention("article-2", "stock-2")}),
    SetToBag({Mention("article-1", "stock-1"), Mention("article-1", "stock-2"),
              Mention("article-2", "stock-1")})
      (+) SetToBag({Mention("article-1", "stock-1")}) }

\* yfinance price changes: -5 %, none (or the fetch failed), +200 %
PriceChanges == {-500, 0, 20000}

\* what yf.Ticker(...).history(period="5d") does: it raises, it returns fewer
\* than two sessions, or it returns a history with the given change
PriceFetches ==
  [kind : {"error", "short"}, change : {0}] \cup [kind : {"history"}, change : PriceChanges]

\* a price fetch that reports a total loss when it has no data
get_price_change_sentinel(fetch) ==
  IF fetch.kind = "history" THEN fetch.change ELSE -10000

\* _get_price_change(ticker): (current - previous) / previous when
\* len(hist) >= 2, else 0.0; 0.0 on any exception
get_price_change(fetch) ==
  IF fetch.kind = "history" THEN fetch.change ELSE 0

ALInit ==
  /\ al_numeric \in {"float", "decimal"}
  /\ al_sentiments \in [Articles -> SentimentCells]
  /\ al_mentions \in MentionTables
  /\ al_recent \in SUBSET Articles
  /\ al_metrics = EmptyBag
  /\ al_runs = 0
  /\ al_results = {}
  /\ al_fetch = "none"

ALOff ==
  /\ al_numeric = "float"
  /\ al_sentiments = [a \in Articles |-> NoRecord]
  /\ al_mentions = EmptyBag
  /\ al_recent = {}
  /\ al_metrics = EmptyBag
  /\ al_runs = 0
  /\ al_results = {}
  /\ al_fetch = "none"

\* a / b rounded to the nearest unit, for b > 0
DivRound(a, b) == (2 * a + b) \div (2 * b)

\* the mention rows that the JOIN of sentiment_analyses with
\* article_stock_mentions yields for the stocks and the window
JoinRows(stock_ids, ages) ==
  { m \in BagToSet(al_mentions) :
      m.stock_id \in stock_ids /\ al_sentiments[m.article_id].age \in ages }

\* sum and number of the sentiment_score values of the join: one per mention row
RECURSIVE SumScores(_)
SumScores(rows) ==
  IF rows = {} THEN 0
  ELSE LET m == CHOOSE r \in rows : TRUE
       IN  CopiesIn(m, al_mentions) * al_sentiments[m.article_id].score
             + SumScores(rows \ {m})

RECURSIVE CountRows(_)
CountRows(rows) ==
  IF rows = {} THEN 0
  ELSE LET m == CHOOSE r \in rows : TRUE
       IN  CopiesIn(m, al_mentions) + CountRows(rows \ {m})

\* sum(s.sentiment_score for s in recent_sentiments) / len(recent_sentiments)
CurrentSentiment(stock_ids) ==
  DivRound(SumScores(JoinRows(stock_ids, Day)), CountRows(JoinRows(stock_ids, Day)))

\* SELECT AVG(sa.sentiment_score) ... interval '7 days'; None becomes 0.0
BaselineSentiment(stock_ids) ==
  IF JoinRows(stock_ids, Week) = {} THEN 0
  ELSE DivRound(SumScores(JoinRows(stock_ids, Week)), CountRows(JoinRows(stock_ids, Week)))

\* COUNT(DISTINCT article_id) over the mentions of articles scraped in the
\* last 24 hours, divided by the number of such articles; 0.0 when there are none
NewsShare(stock_ids) ==
  LET mentioned == { m.article_id : m \in
                       { r \in BagToSet(al_mentions) :
                           r.stock_id \in stock_ids /\ r.article_id \in al_recent } }
  IN  IF al_recent = {} THEN 0
      ELSE DivRound(10000 * Cardinality(mentioned), Cardinality(al_recent))

\* pipeline/alpha/expectation_gap.py, narrative_velocity.py, divergence.py
compute_expectation_gap(current_sentiment, baseline_sentiment) ==
  current_sentiment - baseline_sentiment

compute_narrative_velocity(news_share, sentiment_magnitude) ==
  DivRound(news_share * 5 * (10000 + Abs(sentiment_magnitude)), 10000)

\* compute_divergence with the sign of the price change reversed
compute_divergence_sum(sentiment, price_change) == sentiment + price_change

compute_divergence(sentiment, price_change) == sentiment - price_change

\* compute_sector_alpha: the mean of the non-zero price changes of the
\* sector's stocks, 0.0 when there is none
RECURSIVE SumPrices(_, _)
SumPrices(prices, stock_ids) ==
  IF stock_ids = {} THEN 0
  ELSE LET s == CHOOSE x \in stock_ids : TRUE
       IN  prices[s] + SumPrices(prices, stock_ids \ {s})

AvgPriceChange(prices, stock_ids) ==
  LET moved == { s \in stock_ids : prices[s] # 0 }
  IN  IF moved = {} THEN 0 ELSE DivRound(SumPrices(prices, moved), Cardinality(moved))

\* the parameters of INSERT INTO alpha_metrics (lines 194-212 and 347-365)
MetricRow(stock_id, sector, stock_ids, price_change) ==
  LET current_sentiment == CurrentSentiment(stock_ids)
      expectation_gap ==
        ClampMetric(compute_expectation_gap(current_sentiment, BaselineSentiment(stock_ids)))
      narrative_velocity ==
        ClampMetric(compute_narrative_velocity(NewsShare(stock_ids), Abs(current_sentiment)))
      divergence == ClampMetric(compute_divergence(current_sentiment, price_change))
      composite == compute_composite(expectation_gap, narrative_velocity, divergence)
  IN  [stock_id |-> stock_id,
       sector |-> sector,
       expectation_gap |-> expectation_gap,
       narrative_velocity |-> narrative_velocity,
       sentiment_divergence |-> divergence,
       composite_score |-> ClampComposite(composite.composite_score),
       signal |-> composite.signal,
       conviction |-> composite.conviction]

\* an execution of the task ("stock" or "sector") ends with the given status
AlphaDone(task, status) ==
  /\ al_runs < MaxAlphaRuns
  /\ al_runs' = al_runs + 1
  /\ al_results' = al_results \cup {<<task, status>>}
  /\ al_fetch' = "none"
  /\ UNCHANGED <<al_numeric, al_sentiments, al_mentions, al_recent>>
  /\ ALOthers

\* compute_stock_alpha: `if not stock_info: return {"status": "not_found"}`
StockNotFound(stock_id) ==
  /\ stock_id = MissingStock
  /\ AlphaDone("stock", "not_found")
  /\ UNCHANGED al_metrics

\* compute_stock_alpha: `if not recent_sentiments: return {"status": "no_data"}`
StockNoData(stock_id) ==
  /\ stock_id \in AlphaStocks
  /\ JoinRows({stock_id}, Day) = {}
  /\ AlphaDone("stock", "no_data")
  /\ UNCHANGED al_metrics

\* the driver (psycopg2, database.py) delivers NUMERIC as decimal.Decimal:
\* current_sentiment is a Decimal, baseline_sentiment a float, and
\* current_sentiment - baseline_sentiment raises TypeError; nothing is written
StockTypeError(stock_id) ==
  /\ stock_id \in AlphaStocks
  /\ JoinRows({stock_id}, Day) # {}
  /\ al_numeric = "decimal"
  /\ AlphaDone("stock", "type_error")
  /\ UNCHANGED al_metrics

\* compute_stock_alpha computes the metrics and INSERTs the row
StockPersist(stock_id, fetch) ==
  /\ stock_id \in AlphaStocks
  /\ JoinRows({stock_id}, Day) # {}
  /\ al_numeric = "float"
  /\ al_metrics' = al_metrics (+)
       SetToBag({MetricRow(stock_id, SectorOf(stock_id), {stock_id},
                           get_price_change(fetch))})
  /\ al_runs < MaxAlphaRuns
  /\ al_runs' = al_runs + 1
  /\ al_results' = al_results \cup {<<"stock", "success">>}
  /\ al_fetch' = IF fetch.kind = "history" THEN "none" ELSE fetch.kind
  /\ UNCHANGED <<al_numeric, al_sentiments, al_mentions, al_recent>>
  /\ ALOthers

\* compute_sector_alpha: `if not stocks_in_sector: return {"status": "no_stocks"}`
SectorNoStocks(sector) ==
  /\ StocksIn(sector) = {}
  /\ AlphaDone("sector", "no_stocks")
  /\ UNCHANGED al_metrics

SectorNoData(sector) ==
  /\ StocksIn(sector) # {}
  /\ JoinRows(StocksIn(sector), Day) = {}
  /\ AlphaDone("sector", "no_data")
  /\ UNCHANGED al_metrics

SectorTypeError(sector) ==
  /\ StocksIn(sector) # {}
  /\ JoinRows(StocksIn(sector), Day) # {}
  /\ al_numeric = "decimal"
  /\ AlphaDone("sector", "type_error")
  /\ UNCHANGED al_metrics

\* compute_sector_alpha computes the metrics and INSERTs the row
SectorPersist(sector, prices) ==
  /\ StocksIn(sector) # {}
  /\ JoinRows(StocksIn(sector), Day) # {}
  /\ al_numeric = "float"
  /\ al_metrics' = al_metrics (+)
       SetToBag({MetricRow(Null, sector, StocksIn(sector),
                           AvgPriceChange(prices, StocksIn(sector)))})
  /\ AlphaDone("sector", "success")

AlphaNext ==
  \/ \E s \in AlphaStocks \cup {MissingStock} : StockNotFound(s)
  \/ \E s \in AlphaStocks : StockNoData(s)
  \/ \E s \in AlphaStocks : StockTypeError(s)
  \/ \E s \in AlphaStocks, fetch \in PriceFetches : StockPersist(s, fetch)
  \/ \E sector \in Sectors : SectorNoStocks(sector)
  \/ \E sector \in Sectors : SectorNoData(sector)
  \/ \E sector \in Sectors : SectorTypeError(sector)
  \/ \E sector \in Sectors, prices \in [AlphaStocks -> PriceChanges] :
       SectorPersist(sector, prices)

(***************************************************************************)
(* The metric computation shared by compute_stock_alpha (lines 179-192)    *)
(* and compute_sector_alpha (lines 303-345), as a function of the four     *)
(* quantities it is computed from.  Units as above.                        *)
(***************************************************************************)
ComputeMetrics(current_sentiment, baseline_sentiment, news_share, price_change) ==
  LET expectation_gap ==
        ClampMetric(compute_expectation_gap(current_sentiment, baseline_sentiment))
      narrative_velocity ==
        ClampMetric(compute_narrative_velocity(news_share, Abs(current_sentiment)))
      divergence == ClampMetric(compute_divergence(current_sentiment, price_change))
      composite == compute_composite(expectation_gap, narrative_velocity, divergence)
  IN  [expectation_gap |-> expectation_gap,
       narrative_velocity |-> narrative_velocity,
       divergence |-> divergence,
       composite_score |-> composite.composite_score,
       signal |-> composite.signal,
       conviction |-> composite.conviction]

\* the quantities tried: mean sentiments, news shares and price changes
MetricSentiments == {8000, 3000, 0, -8000, 10000}
MetricShares == {0, 1000, 10000}
MetricPrices == {-500, 0, 20000}

NoMetrics ==
  [expectation_gap |-> 0, narrative_velocity |-> 0, divergence |-> 0,
   composite_score |-> 0, signal |-> "none", conviction |-> 0]

PMInit ==
  /\ pm_in \in [current : MetricSentiments, baseline : MetricSentiments,
                news_share : MetricShares, price_change : MetricPrices]
  /\ pm_out = NoMetrics

PMOff ==
  /\ pm_in = [current |-> 0, baseline |-> 0, news_share |-> 0, price_change |-> 0]
  /\ pm_out = NoMetrics

\* lines 179-192: the three clamped sub-metrics and compute_composite
CallComputeMetrics ==
  /\ pm_out = NoMetrics
  /\ pm_out' = ComputeMetrics(pm_in.current, pm_in.baseline, pm_in.news_share,
                              pm_in.price_change)
  /\ UNCHANGED pm_in
  /\ PMOthers

PMNext == CallComputeMetrics

(***************************************************************************)
(* RSS ingestion  (pipeline/tasks/rss_ingestion.py, lines 60-141)          *)
(* fetch_all_feeds dispatches one fetch_single_feed per feed, so several   *)
(* executions run side by side.  An execution works through its entries    *)
(* inside one transaction (`with get_db() as db`), committed when the loop *)
(* is over.  news_articles has UNIQUE (url) and no constraint on           *)
(* content_hash (001_initial_schema.py, lines 89-114).  Text is a sequence *)
(* of characters.                                                          *)
(***************************************************************************)
Chars == {"A", "a", "b", " "}

\* str.lower() on one character
UpperLetters ==
  <<"A", "B", "C", "D", "E", "F", "G", "H", "I", "J", "K", "L", "M",
    "N", "O", "P", "Q", "R", "S", "T", "U", "V", "W", "X", "Y", "Z">>
LowerLetters ==
  <<"a", "b", "c", "d", "e", "f", "g", "h", "i", "j", "k", "l", "m",
    "n", "o", "p", "q", "r", "s", "t", "u", "v", "w", "x", "y", "z">>
Lower(c) ==
  IF \E i \in 1..26 : UpperLetters[i] = c
  THEN LowerLetters[CHOOSE i \in 1..26 : UpperLetters[i] = c]
  ELSE c

LowerText(s) == [i \in 1..Len(s) |-> Lower(s[i])]

RECURSIVE LStrip(_)
LStrip(s) == IF s # << >> /\ Head(s) = " " THEN LStrip(Tail(s)) ELSE s

RECURSIVE RStrip(_)
RStrip(s) ==
  IF s # << >> /\ s[Len(s)] = " " THEN RStrip(SubSeq(s, 1, Len(s) - 1)) ELSE s

\* str.strip()
Strip(s) == RStrip(LStrip(s))

\* re.sub(r"\s+", " ", text)
RECURSIVE CollapseSpaces(_)
CollapseSpaces(s) ==
  IF Len(s) < 2 THEN s
  ELSE IF s[1] = " " /\ s[2] = " " THEN CollapseSpaces(Tail(s))
  ELSE <<s[1]>> \o CollapseSpaces(Tail(s))

\* clean_html(html_content) on text without tags or entities
clean_html(html_content) == Strip(CollapseSpaces(html_content))

\* compute_content_hash(text): the MD5 digest of text.strip().lower(); the
\* digest is represented by the text it was computed from (no collisions)
compute_content_hash(text) == LowerText(Strip(text))

\* feed entries as RSSFeedParser.parse_entry returns them
EntryA == [link |-> "u1", title |-> <<"A", "b">>, summary |-> << >>]
EntryA2 == [link |-> "u2", title |-> <<"a">>, summary |-> <<" ", "b", " ">>]
EntryB == [link |-> "u1", title |-> <<"b">>, summary |-> << >>]
EntryNoLink == [link |-> "", title |-> <<"b">>, summary |-> << >>]

\* what parser.fetch_feed(feed_url) may return
Feeds ==
  { <<EntryA, EntryA2>>, <<EntryA2, EntryA>>, <<EntryB, EntryA>>,
    <<EntryNoLink, EntryA>> }

\* summary = clean_html(summary_raw) if summary_raw else None
\* content_hash = compute_content_hash(title + (summary or ""))
ContentHash(entry) ==
  compute_content_hash(
    entry.title \o (IF entry.summary # << >> THEN clean_html(entry.summary) ELSE << >>))

RSIdle ==
  [pc |-> "idle", feed |-> << >>, i |-> 0, run |-> 0, pending |-> {},
   existing |-> FALSE, stored |-> FALSE]

RSInit ==
  /\ rs_articles = {}
  /\ rs_exec = [x \in Executions |-> RSIdle]
  /\ rs_scrapes = {}
  /\ rs_published = {}
  /\ rs_hashed = {}
  /\ rs_fetches = 0

\* the ingestion tasks while another subsystem is being exercised
RSOff ==
  /\ rs_articles = {}
  /\ rs_exec = [x \in Executions |-> RSIdle]
  /\ rs_scrapes = {}
  /\ rs_published = {}
  /\ rs_hashed = {}
  /\ rs_fetches = 0

\* entries = parser.fetch_feed(feed_url); with get_db() as db: for entry in entries
RSFetch(x, feed) ==
  /\ rs_exec[x].pc = "idle"
  /\ rs_fetches < MaxFetches
  /\ rs_fetches' = rs_fetches + 1
  /\ rs_exec' = [rs_exec EXCEPT ![x] =
                   [RSIdle EXCEPT !.pc = "select", !.feed = feed, !.i = 1,
                                  !.run = rs_fetches + 1]]
  /\ UNCHANGED <<rs_articles, rs_scrapes, rs_published, rs_hashed>>
  /\ RSOthers

\* the entry the loop is at
Current(x) == rs_exec[x].feed[rs_exec[x].i]

\* the candidate the loop is at: the execution and the place in its feed
Candidate(x) == <<rs_exec[x].run, rs_exec[x].i>>

\* the rows a statement of execution x sees (READ COMMITTED): the committed
\* rows and the rows its own transaction has inserted
RSVisible(x) == rs_articles \cup rs_exec[x].pending

\* a URL check that never finds the row
UrlKnownNever(x, url) == FALSE

\* SELECT id FROM news_articles WHERE url = :url ... fetchone()
UrlKnown(x, url) == \E row \in RSVisible(x) : row.url = url

\* the next iteration of `for entry in entries`, or the end of the with block
NextEntry(e) ==
  IF e.i < Len(e.feed) THEN [e EXCEPT !.pc = "select", !.i = @ + 1]
  ELSE [e EXCEPT !.pc = "commit"]

\* if not url: continue
RSNoLink(x) ==
  /\ rs_exec[x].pc = "select"
  /\ Current(x).link = ""
  /\ rs_exec' = [rs_exec EXCEPT ![x] = NextEntry(@)]
  /\ UNCHANGED <<rs_articles, rs_scrapes, rs_published, rs_hashed, rs_fetches>>
  /\ RSOthers

\* existing = db.execute(SELECT ...).fetchone(); if existing: continue
RSSelect(x) ==
  /\ rs_exec[x].pc = "select"
  /\ Current(x).link # ""
  /\ LET existing == UrlKnown(x, Current(x).link)
         stored == \E row \in RSVisible(x) : row.url = Current(x).link
         seen == [rs_exec[x] EXCEPT !.existing = existing, !.stored = stored]
     IN  rs_exec' = [rs_exec EXCEPT ![x] =
                       IF existing THEN NextEntry(seen)
                       ELSE [seen EXCEPT !.pc = "insert"]]
  /\ UNCHANGED <<rs_articles, rs_scrapes, rs_published, rs_hashed, rs_fetches>>
  /\ RSOthers

\* the row another transaction has inserted for this URL and not yet committed
HeldBy(y, url) == \E row \in rs_exec[y].pending : row.url = url

\* the INSERT would wait for an open transaction that holds the same URL
Blocked(x) ==
  /\ rs_exec[x].pc = "insert"
  /\ \E y \in Executions \ {x} : HeldBy(y, Current(x).link)

\* UNIQUE (url) is violated by a committed row, or by a row of this
\* transaction
UniqueViolation(x) == \E row \in RSVisible(x) : row.url = Current(x).link

\* two transactions wait for each other's row: the server aborts one
Deadlocked(x) ==
  /\ Blocked(x)
  /\ \E y \in Executions \ {x} :
       /\ HeldBy(y, Current(x).link)
       /\ rs_exec[y].pc = "insert"
       /\ HeldBy(x, Current(y).link)

\* the row of the INSERT ... RETURNING id
ArticleRow(x) ==
  [id |-> Candidate(x), url |-> Current(x).link,
   content_hash |-> ContentHash(Current(x))]

\* content_hash = compute_content_hash(...); INSERT INTO news_articles ...
\* RETURNING id; publish_new_article(...) (its errors are swallowed);
\* scrape_article.delay(str(article_id), url)
RSInsert(x, published) ==
  /\ rs_exec[x].pc = "insert"
  /\ ~UniqueViolation(x)
  /\ ~Blocked(x)
  /\ rs_hashed' = rs_hashed \cup {Candidate(x)}
  /\ rs_exec' = [rs_exec EXCEPT ![x] =
                   NextEntry([@ EXCEPT !.pending = @ \cup {ArticleRow(x)}])]
  /\ rs_published' = IF published THEN rs_published \cup {Candidate(x)}
                     ELSE rs_published
  /\ rs_scrapes' = rs_scrapes \cup {[article_id |-> Candidate(x),
                                      url |-> Current(x).link]}
  /\ UNCHANGED <<rs_articles, rs_fetches>>
  /\ RSOthers

\* the INSERT raises (IntegrityError on UNIQUE (url), or the transaction is
\* the victim of a deadlock): the exception leaves the loop and get_db()
\* rolls the transaction back; tasks and events already sent stay sent
RSInsertFails(x) ==
  /\ rs_exec[x].pc = "insert"
  /\ UniqueViolation(x) \/ Deadlocked(x)
  /\ rs_hashed' = rs_hashed \cup {Candidate(x)}
  /\ rs_exec' = [rs_exec EXCEPT ![x] = RSIdle]
  /\ UNCHANGED <<rs_articles, rs_scrapes, rs_published, rs_fetches>>
  /\ RSOthers

\* get_db(): db.commit() after the with block
RSCommit(x) ==
  /\ rs_exec[x].pc = "commit"
  /\ rs_articles' = rs_articles \cup rs_exec[x].pending
  /\ rs_exec' = [rs_exec EXCEPT ![x] = RSIdle]
  /\ UNCHANGED <<rs_scrapes, rs_published, rs_hashed, rs_fetches>>
  /\ RSOthers

RSSNext ==
  \/ \E x \in Executions, feed \in Feeds : RSFetch(x, feed)
  \/ \E x \in Executions : RSNoLink(x)
  \/ \E x \in Executions : RSSelect(x)
  \/ \E x \in Executions, published \in BOOLEAN : RSInsert(x, published)
  \/ \E x \in Executions : RSInsertFails(x)
  \/ \E x \in Executions : RSCommit(x)

(***************************************************************************)
(* TickerResolver (ml/ticker_resolver.py).  __init__ builds                *)
(* _alias_to_ticker from TICKER_ALIASES, keyed by the lower-cased alias,   *)
(* in the dictionary's insertion order; resolve looks the lower-cased      *)
(* entity up, then scans the dictionary for the first alias that contains  *)
(* the entity or is contained in it.  The dictionary here is a slice of    *)
(* TICKER_ALIASES, in its order, holding the aliases of different tickers  *)
(* that contain one another ("SBI" / "SBI Life", "Tech Mahindra" /         *)
(* "Mahindra").  Text is a sequence of characters.                         *)
(***************************************************************************)
MaxEntities == 2

TICKER_ALIASES ==
  << [ticker |-> "SBIN",
      aliases |-> << <<"S", "B", "I">>,
                     <<"S", "t", "a", "t", "e", " ", "B", "a", "n", "k">> >>],
     [ticker |-> "TECHM",
      aliases |-> << <<"T", "e", "c", "h", " ", "M", "a", "h", "i", "n", "d", "r", "a">> >>],
     [ticker |-> "SBILIFE",
      aliases |-> << <<"S", "B", "I", " ", "L", "i", "f", "e">> >>],
     [ticker |-> "M&M",
      aliases |-> << <<"M", "a", "h", "i", "n", "d", "r", "a">> >>] >>

\* str.upper() and str.swapcase(), to write an alias in another letter case
Upper(c) ==
  IF \E i \in 1..26 : LowerLetters[i] = c
  THEN UpperLetters[CHOOSE i \in 1..26 : LowerLetters[i] = c]
  ELSE c
UpperText(s) == [i \in 1..Len(s) |-> Upper(s[i])]
SwapCase(s) ==
  [i \in 1..Len(s) |-> IF Lower(s[i]) = s[i] THEN Upper(s[i]) ELSE Lower(s[i])]

\* the aliases of the dictionary's t-th ticker, as a set
AliasesOf(t) ==
  {TICKER_ALIASES[t].aliases[a] : a \in 1..Len(TICKER_ALIASES[t].aliases)}
AllAliases == UNION {AliasesOf(t) : t \in 1..Len(TICKER_ALIASES)}

\* the entities passed to the resolver: every alias as written, in lower
\* case, in upper case and with the case of each letter swapped, and names
\* that are no alias: the empty string, a part of an alias ("Tech"), an
\* alias with more text around it ("SBI Li") and an unknown name ("Tata")
Entities ==
  AllAliases
    \cup {LowerText(a) : a \in AllAliases}
    \cup {UpperText(a) : a \in AllAliases}
    \cup {SwapCase(a) : a \in AllAliases}
    \cup { << >>, <<"T", "e", "c", "h">>, <<"S", "B", "I", " ", "L", "i">>,
           <<"T", "a", "t", "a">> }

RECURSIVE EntityLists(_)
EntityLists(n) ==
  IF n = 0 THEN {<< >>}
  ELSE EntityLists(n - 1)
         \cup {Append(l, x) : l \in {m \in EntityLists(n - 1) : Len(m) = n - 1},
                              x \in Entities}

\* dict[key] = value: a key already present keeps its position
DictSet(d, key, value) ==
  IF \E i \in 1..Len(d) : d[i].alias = key
  THEN [i \in 1..Len(d) |-> IF d[i].alias = key
                            THEN [alias |-> key, ticker |-> value] ELSE d[i]]
  ELSE Append(d, [alias |-> key, ticker |-> value])

\* the inner loop of __init__ over the aliases of one ticker, from the a-th
RECURSIVE AddAliases(_, _, _)
AddAliases(d, t, a) ==
  IF a > Len(TICKER_ALIASES[t].aliases) THEN d
  ELSE AddAliases(DictSet(d, LowerText(TICKER_ALIASES[t].aliases[a]),
                          TICKER_ALIASES[t].ticker), t, a + 1)

\* the outer loop of __init__, from the t-th ticker
RECURSIVE BuildAliases(_, _)
BuildAliases(d, t) ==
  IF t > Len(TICKER_ALIASES) THEN d
  ELSE BuildAliases(AddAliases(d, t, 1), t + 1)

alias_to_ticker == BuildAliases(<< >>, 1)

\* Python's `a in b` on strings
IsSubstring(a, b) ==
  \E i \in 0..(Len(b) - Len(a)) : SubSeq(b, i + 1, i + Len(a)) = a

\* the partial-match loop of resolve: the first alias, in dictionary order,
\* that is contained in the entity or contains it
PartialMatch(entity_lower) ==
  LET hits == {i \in 1..Len(alias_to_ticker) :
                 \/ IsSubstring(alias_to_ticker[i].alias, entity_lower)
                 \/ IsSubstring(entity_lower, alias_to_ticker[i].alias)}
  IN IF hits = {} THEN None
     ELSE Some(alias_to_ticker[CHOOSE i \in hits : \A j \in hits : i <= j].ticker)

\* resolve with the direct lookup left out
resolve_partial_only(entity) == PartialMatch(LowerText(entity))

\* TickerResolver.resolve; every ticker is a non-empty string, so
\* `if ticker:` is true whenever the lookup hits
resolve(entity) ==
  LET entity_lower == LowerText(entity)
      direct == {i \in 1..Len(alias_to_ticker) :
                   alias_to_ticker[i].alias = entity_lower}
  IN IF direct # {}
     THEN Some(alias_to_ticker[CHOOSE i \in direct : TRUE].ticker)
     ELSE PartialMatch(entity_lower)

\* TickerResolver.resolve_all
resolve_all(entities) ==
  [i \in 1..Len(entities) |->
     [entity |-> entities[i], ticker |-> resolve(entities[i])]]

NotCalled == [called |-> FALSE, results |-> << >>]

TRInit ==
  /\ tr_in \in EntityLists(MaxEntities)
  /\ tr_out = NotCalled

TROff ==
  /\ tr_in = << >>
  /\ tr_out = NotCalled

\* one call of resolve_all(tr_in)
TRResolveAll ==
  /\ ~tr_out.called
  /\ tr_out' = [called |-> TRUE, results |-> resolve_all(tr_in)]
  /\ UNCHANGED tr_in
  /\ TROthers

TRNext == TRResolveAll

(***************************************************************************)
(* Specifications.                                                         *)
(***************************************************************************)
InitRL ==
  /\ RLInit
  /\ KROff
  /\ SAOff
  /\ TIOff
  /\ ALOff
  /\ CCOff
  /\ PMOff
  /\ RSOff
  /\ TROff

InitKR ==
  /\ KRInit
  /\ RLOff
  /\ SAOff
  /\ TIOff
  /\ ALOff
  /\ CCOff
  /\ PMOff
  /\ RSOff
  /\ TROff

InitSA ==
  /\ SAInit
  /\ RLOff
  /\ KROff
  /\ TIOff
  /\ ALOff
  /\ CCOff
  /\ PMOff
  /\ RSOff
  /\ TROff

InitSAT ==
  /\ SAStart
  /\ sa_clock \in {Interval - 1, Interval}
  /\ RLOff
  /\ KROff
  /\ TIOff
  /\ ALOff
  /\ CCOff
  /\ PMOff
  /\ RSOff
  /\ TROff

InitTI ==
  /\ TIInit
  /\ RLOff
  /\ KROff
  /\ SAOff
  /\ ALOff
  /\ CCOff
  /\ PMOff
  /\ RSOff
  /\ TROff

InitAlpha ==
  /\ ALInit
  /\ RLOff
  /\ KROff
  /\ SAOff
  /\ TIOff
  /\ CCOff
  /\ PMOff
  /\ RSOff
  /\ TROff

InitCC ==
  /\ CCInit
  /\ RLOff
  /\ KROff
  /\ SAOff
  /\ TIOff
  /\ ALOff
  /\ PMOff
  /\ RSOff
  /\ TROff

InitPM ==
  /\ PMInit
  /\ RSOff
  /\ TROff
  /\ RLOff
  /\ KROff
  /\ SAOff
  /\ TIOff
  /\ ALOff
  /\ CCOff

InitRSS ==
  /\ RSInit
  /\ TROff
  /\ RLOff
  /\ KROff
  /\ SAOff
  /\ TIOff
  /\ ALOff
  /\ CCOff
  /\ PMOff

InitTR ==
  /\ TRInit
  /\ RLOff
  /\ KROff
  /\ SAOff
  /\ TIOff
  /\ ALOff
  /\ CCOff
  /\ PMOff
  /\ RSOff

SpecRL == InitRL /\ [][RLNext]_vars
SpecKR == InitKR /\ [][KRNext]_vars
SpecSA == InitSA /\ [][SANext]_vars
SpecSAT == InitSAT /\ [][SATNext]_vars
SpecTI == InitTI /\ [][TINext]_vars
SpecAlpha == InitAlpha /\ [][AlphaNext]_vars
SpecCC == InitCC /\ [][CCNext]_vars
SpecPM == InitPM /\ [][PMNext]_vars
SpecRSS == InitRSS /\ [][RSSNext]_vars
SpecTR == InitTR /\ [][TRNext]_vars

(***************************************************************************)
(* C1: on one shared RateLimiter, any two successive grants (acquire()     *)
(* returning True, or wait() returning) record timestamps at least one     *)
(* interval apart, for every interleaving of the threads.                  *)
(***************************************************************************)
C1_GrantsSpaced ==
  \A i \in 1..(Len(rl_grants) - 1) :
    rl_grants[i + 1].ts - rl_grants[i].ts >= Interval

\* two back-to-back wait() grants, and a grant by each of two threads
C1_Witness ==
  \E i \in 1..(Len(rl_grants) - 1) :
    /\ rl_grants[i].op = "wait"
    /\ rl_grants[i + 1].op = "wait"
    /\ rl_grants[i].thread # rl_grants[i + 1].thread

(***************************************************************************)
(* C7: with no key marked failed, the k-th get_next() call to complete on  *)
(* a rotator over n >= 1 keys returns keys[(k-1) mod n], also when the     *)
(* calls come from several threads.                                        *)
(***************************************************************************)
C7_RoundRobin ==
  (kr_marks = 0 /\ kr_keys # << >>) =>
    \A k \in 1..Len(kr_returns) :
      /\ ~kr_returns[k].raised
      /\ kr_returns[k].key = kr_keys[((k - 1) % Len(kr_keys)) + 1]

\* the rotation wrapped around a pool of three distinct keys, and both
\* threads took part
C7_Witness ==
  /\ kr_marks = 0
  /\ Len(kr_keys) = 3
  /\ Cardinality(Range(kr_keys)) = 3
  /\ Len(kr_returns) = 4
  /\ kr_returns[4].key = kr_keys[1]
  /\ kr_callers = Threads

(***************************************************************************)
(* C8: on a non-empty pool, after any sequence of get_next() and           *)
(* mark_failed() calls, get_next() returns a pool key that is not in the   *)
(* failed set when the call returns; when every pool key had been marked   *)
(* failed the call clears the failed set and returns a pool key instead of *)
(* raising.                                                                *)
(***************************************************************************)
C8_ReturnsUsableKey ==
  kr_keys # << >> =>
    \A k \in 1..Len(kr_returns) :
      /\ ~kr_returns[k].raised
      /\ kr_returns[k].key \in Range(kr_keys)
      /\ kr_returns[k].key \notin kr_returns[k].failed
      /\ (Range(kr_keys) \subseteq kr_returns[k].entry) => kr_returns[k].failed = {}

\* one get_next() skipped a failed key, a later one found the whole pool
\* failed and reset it
C8_Witness ==
  \E i, j \in 1..Len(kr_returns) :
    /\ i < j
    /\ kr_returns[i].entry # {}
    /\ ~(Range(kr_keys) \subseteq kr_returns[i].entry)
    /\ kr_returns[i].entry \cap Range(kr_keys) # {}
    /\ Range(kr_keys) \subseteq kr_returns[j].entry
    /\ Len(kr_keys) >= 2


\* C2: any two calls that analyze_article executions of one worker process
\* make to the same provider are at least the limiter interval (4 s) apart.
\* sa_calls[p] holds the times of the two latest calls to provider p.
C2_ProviderCallsSpaced ==
  \A p \in Providers :
    Len(sa_calls[p]) >= 2 => sa_calls[p][2] - sa_calls[p][1] >= Interval

\* C3: in every reachable state each article has at most one row in
\* sentiment_analyses; running analyze_article again adds no second row.
C3_OneRecordPerArticle ==
  \A r1, r2 \in BagToSet(sa_rows) :
    r1.article_id = r2.article_id => r1 = r2 /\ CopiesIn(r1, sa_rows) = 1

\* C5: when the provider stage of an execution is over, a failed Gemini call
\* with OpenRouter keys configured has been followed by an OpenRouter call, and
\* a successful Gemini call has not.
C5_GeminiThenOpenRouter ==
  \A w \in Workers :
    sa_pc[w] = "persist" =>
      /\ (sa_local[w].gemini = "failed" /\ sa_settings.openrouter
            => sa_local[w].openrouter # "not_called")
      /\ (sa_local[w].gemini = "ok" => sa_local[w].openrouter = "not_called")

\* C6: when every provider call an execution attempted has failed, the task
\* goes on to persist, and the row it persists is classifier-only: score and
\* confidence are the classifier's, llm_score and llm_provider are null and
\* the explanation is the classifier-only label.
C6_ClassifierOnlyWhenAllFail ==
  \A w \in Workers :
    LET l == sa_local[w]
    IN  /\ sa_pc[w] = "persist"
        /\ "failed" \in {l.gemini, l.openrouter}
        /\ {l.gemini, l.openrouter} \subseteq {"failed", "not_called"}
        => /\ l.llm_result.type # "list"
           /\ NewRow(w).sentiment_score = l.finbert_score
           /\ NewRow(w).confidence = l.finbert_confidence
           /\ NewRow(w).llm_score = None
           /\ NewRow(w).llm_provider = None
           /\ NewRow(w).explanation = "FinBERT analysis"


\* C4: however two identify_tickers executions for one article interleave,
\* article_stock_mentions holds at most one row per (article, stock) pair and
\* no execution ends with an error.
C4_OneMentionPerPair ==
  /\ \A row \in BagToSet(ti_mentions) : CopiesIn(row, ti_mentions) = 1
  /\ ti_results \subseteq {"success", "not_found", "no_text"}

C10_CompositeInUnitRange ==
  \A row \in BagToSet(al_metrics) :
    row.composite_score >= -1000000 /\ row.composite_score <= 1000000


\* C11 (as the code computes it): for current mean sentiment +0.8, baseline
\* +0.3, news share 0.1 and price change -0.05 the metrics are
\* expectation_gap 0.5, narrative_velocity 0.9, divergence 0.85,
\* composite_score 0.45*0.5 + 0.30*0.9 + 0.25*0.85 = 0.7075, signal
\* strong_buy and conviction 0.7075.
C11_WorkedExample ==
  /\ pm_out.signal # "none"
  /\ pm_in = [current |-> 8000, baseline |-> 3000, news_share |-> 1000,
              price_change |-> -500]
  => /\ pm_out.expectation_gap = 5000
     /\ pm_out.narrative_velocity = 9000
     /\ pm_out.divergence = 8500
     /\ pm_out.composite_score = 707500
     /\ pm_out.signal = "strong_buy"
     /\ pm_out.conviction = 707500

\* the metrics have been computed for the inputs of the example
C11_Witness ==
  /\ pm_in = [current |-> 8000, baseline |-> 3000, news_share |-> 1000,
              price_change |-> -500]
  /\ pm_out.signal = "strong_buy"

\* C11 as stated: the same inputs yield composite_score 0.9175 and
\* conviction 0.9175 (with the sub-metrics and the signal as above).
C11_AsStated ==
  /\ pm_out.signal # "none"
  /\ pm_in = [current |-> 8000, baseline |-> 3000, news_share |-> 1000,
              price_change |-> -500]
  => /\ pm_out.expectation_gap = 5000
     /\ pm_out.narrative_velocity = 9000
     /\ pm_out.divergence = 8500
     /\ pm_out.composite_score = 917500
     /\ pm_out.signal = "strong_buy"
     /\ pm_out.conviction = 917500


\* C12: an execution of compute_stock_alpha or compute_sector_alpha for an
\* entity without a sentiment record in the 24 h window writes no row and
\* ends with no_data; an execution for an entity with such a record adds
\* exactly one row to alpha_metrics, and when the news share is zero that row
\* has narrative_velocity 0.
C12_RowIffData ==
  [][ LET Ran(task, stock_ids) ==
            IF JoinRows(stock_ids, Day) = {}
              THEN /\ al_metrics' = al_metrics
                   /\ <<task, "no_data">> \in al_results'
              ELSE /\ BagCardinality(al_metrics') = BagCardinality(al_metrics) + 1
                   /\ NewsShare(stock_ids) = 0 =>
                        \E row \in BagToSet(al_metrics') :
                          /\ CopiesIn(row, al_metrics') > CopiesIn(row, al_metrics)
                          /\ row.narrative_velocity = 0
      IN  /\ \A s \in AlphaStocks :
               (\/ StockNoData(s)
                \/ StockTypeError(s)
                \/ \E fetch \in PriceFetches : StockPersist(s, fetch))
               => Ran("stock", {s})
          /\ \A sector \in Sectors :
               (\/ SectorNoData(sector)
                \/ SectorTypeError(sector)
                \/ \E prices \in [AlphaStocks -> PriceChanges] :
                     SectorPersist(sector, prices))
               => Ran("sector", StocksIn(sector))
    ]_vars


\* C13: every row of alpha_metrics has exactly one of its stock reference and
\* its sector name set: rows of compute_stock_alpha carry a stock_id and no
\* sector, rows of compute_sector_alpha a sector and no stock_id.
C13_ExactlyOneScope ==
  \A row \in BagToSet(al_metrics) : (row.stock_id = Null) # (row.sector = Null)

\* C14: every row of alpha_metrics has expectation_gap, narrative_velocity
\* and sentiment_divergence within [-9.9999, 9.9999].
C14_SubMetricsClamped ==
  \A row \in BagToSet(al_metrics) :
    /\ row.expectation_gap >= -99999 /\ row.expectation_gap <= 99999
    /\ row.narrative_velocity >= -99999 /\ row.narrative_velocity <= 99999
    /\ row.sentiment_divergence >= -99999 /\ row.sentiment_divergence <= 99999

\* a row was written whose narrative velocity (news share 1.0, mean
\* sentiment 1.0: 1.0 * 5 * 2.0 = 10.0) had to be cut to 9.9999
C14_Witness ==
  \E row \in BagToSet(al_metrics) :
    /\ row.narrative_velocity = 99999
    /\ compute_narrative_velocity(NewsShare({row.stock_id}),
                                  Abs(CurrentSentiment({row.stock_id}))) > 99999


\* C15: the row analyze_article is about to persist has, when an LLM score
\* exists next to the classifier's, sentiment_score = 0.4 * classifier score
\* + 0.6 * LLM score and confidence = the mean of the two confidences; and
\* when neither provider has a key the execution has not raised and the row
\* has the classifier's score and confidence, explanation "FinBERT analysis",
\* impact timeline "unknown" and null llm_score and llm_provider.
C15_EnsembleRule ==
  \A w \in Workers :
    sa_pc[w] = "persist" =>
      LET l == sa_local[w]
          row == NewRow(w)
      IN  /\ l.llm_score # None =>
               /\ row.sentiment_score = (4 * l.finbert_score + 6 * l.llm_score[1]) \div 10
               /\ row.confidence = (l.finbert_confidence + l.llm_result.conf) \div 2
          /\ ~sa_settings.gemini /\ ~sa_settings.openrouter =>
               /\ l.llm_result = NoneValue
               /\ row.sentiment_score = l.finbert_score
               /\ row.confidence = l.finbert_confidence
               /\ row.explanation = "FinBERT analysis"
               /\ row.impact_timeline = "unknown"
               /\ row.llm_score = None
               /\ row.llm_provider = None

\* a row combining classifier score 1.0 with LLM score 0.5 was persisted:
\* 0.4 * 1.0 + 0.6 * 0.5 = 0.7, confidence (0.9 + 0.8) / 2 = 0.85
C15_Witness ==
  \E row \in BagToSet(sa_rows) :
    /\ row.finbert_score = 1000
    /\ row.llm_score = Some(500)
    /\ row.sentiment_score = 700
    /\ row.confidence = 850


\* C16: whatever keeps the classifier model from loading, analyze() returns
\* the neutral stub and analyze_article goes on: no execution ends with the
\* load error.
C16_LoadFailureGivesStub == "classifier_error" \notin sa_results


\* C17: every persisted sentiment record has sentiment_score in [-1.0, 1.0]
\* and confidence in [0.0, 1.0] (thousandths), whatever JSON object the
\* provider returned.
C17_ScoresInRange ==
  \A row \in BagToSet(sa_rows) :
    /\ -1000 <= row.sentiment_score /\ row.sentiment_score <= 1000
    /\ 0 <= row.confidence /\ row.confidence <= 1000


\* the worker pool keeps running: a free worker takes a queued message and a
\* started task body runs on (Celery worker main loop)
SpecSAFair == InitSA /\ [][SARNext]_vars /\ WF_vars(WorkerStep)

\* no message is queued and no task body is running
Quiescent ==
  /\ \A k \in Tasks : sa_queue[k] = 0
  /\ \A w \in Workers : sa_pc[w] = "idle"

\* C18: every dispatched analyze_article terminates: only a failure to persist
\* queues a retry (with the attempt counted), no attempt beyond max_retries
\* runs, a persistence failure on the last attempt ends the task as failed
\* without queueing it again, and outstanding work always drains.
C18_RetriesBoundedAndTerminate ==
  /\ [][\A k \in Tasks :
          sa_queue'[k] > sa_queue[k] /\ k.retries > 0 =>
            \E w \in Workers :
              /\ sa_pc[w] = "persist" /\ sa_pc'[w] = "idle"
              /\ sa_local[w].llm_result.type # "list"
              /\ sa_rows' = sa_rows
              /\ sa_task[w].article = k.article
              /\ sa_task[w].retries = k.retries - 1]_vars
  /\ [](\A w \in Workers : sa_pc[w] # "idle" => sa_task[w].retries <= MAX_RETRIES)
  /\ [][\A w \in Workers :
          /\ sa_pc[w] = "persist" /\ sa_pc'[w] = "idle"
          /\ sa_local[w].llm_result.type # "list"
          /\ sa_rows' = sa_rows
          /\ sa_task[w].retries = MAX_RETRIES
          => /\ sa_queue' = sa_queue
             /\ "persist_failed" \in sa_results']_vars
  /\ (~Quiescent ~> Quiescent)

\* C18 witness: a task was retried and failed to persist on its last attempt.
C18_Witness ==
  /\ {"retry", "persist_failed"} \subseteq sa_results
  /\ Quiescent


\* C19: a candidate whose content hash equals that of a stored article is
\* rejected even when its URL is new: no two stored articles share a content
\* hash, and an execution inserts no row and schedules no scrape_article for
\* a candidate whose hash is that of a stored article.
C19_DuplicateContentRejected ==
  /\ [](\A a, b \in rs_articles : a.id # b.id => a.content_hash # b.content_hash)
  /\ [][\A x \in Executions :
          /\ rs_exec[x].pc = "insert"
          /\ rs_exec'[x] # rs_exec[x]
          /\ \E a \in rs_articles : a.content_hash = ContentHash(Current(x))
          => /\ rs_scrapes' = rs_scrapes
             /\ rs_exec'[x].pending \subseteq rs_exec[x].pending]_vars

\* C20: no two stored articles have the same URL, and the URL check comes
\* first: hashing, inserting, publishing and scheduling happen only in the
\* insert stage, which an execution enters only for a candidate whose URL its
\* SELECT did not find stored; a candidate whose URL was found stored costs
\* nothing but the check.
C20_UrlGateFirst ==
  /\ [](\A a, b \in rs_articles : a.id # b.id => a.url # b.url)
  /\ [](\A x \in Executions : rs_exec[x].pc = "insert" => ~rs_exec[x].stored)
  /\ [][\A x \in Executions :
          /\ rs_exec'[x] # rs_exec[x]
          /\ \/ rs_hashed' # rs_hashed
             \/ ~(rs_exec'[x].pending \subseteq rs_exec[x].pending)
             \/ rs_published' # rs_published
             \/ rs_scrapes' # rs_scrapes
          => rs_exec[x].pc = "insert" /\ ~rs_exec[x].stored]_vars
  /\ [][\A x \in Executions :
          /\ rs_exec[x].pc = "select"
          /\ rs_exec'[x] # rs_exec[x]
          /\ \E row \in rs_articles \cup rs_exec[x].pending : row.url = Current(x).link
          => /\ rs_exec'[x] = NextEntry([rs_exec[x] EXCEPT !.existing = TRUE,
                                                           !.stored = TRUE])
             /\ UNCHANGED <<rs_articles, rs_scrapes, rs_published, rs_hashed>>]_vars

\* C20 witness: an execution has passed over a candidate whose URL is stored
\* (here the last entry of its feed) without hashing it.
C20_Witness ==
  \E x \in Executions :
    /\ rs_exec[x].pc = "commit"
    /\ rs_exec[x].stored
    /\ Candidate(x) \notin rs_hashed
    /\ \E a \in rs_articles : a.url = Current(x).link


\* C21: acquire() returns True exactly when the limiter has granted nothing
\* yet or at least one interval has passed since the last grant, and then
\* records its `now` as the last grant; returning False it leaves the limiter
\* unchanged.  (rl_grants is the history of grants, rl_now[t] the time the
\* call read.)
C21_AcquireContract ==
  /\ [][\A t \in Threads :
          rl_pc[t] = "acquire_deny" /\ rl_pc'[t] = "idle" =>
            /\ rl_grants # << >>
            /\ rl_now[t] - rl_grants[Len(rl_grants)].ts < Interval
            /\ rl_last' = rl_last]_vars
  /\ [][\A t \in Threads :
          rl_pc[t] = "acquire_grant" /\ rl_pc'[t] = "idle" =>
            /\ \/ rl_grants = << >>
               \/ rl_now[t] - rl_grants[Len(rl_grants)].ts >= Interval
            /\ rl_last' = rl_now[t]]_vars


\* C22: acquire() answers without waiting for time to pass: whenever a thread
\* is free to call it, the lock is free or its holder gives it up without the
\* clock having to advance, that is, no holder is asleep inside wait().
C22_AcquireNonBlocking ==
  \A u \in Threads :
    rl_pc[u] = "idle" =>
      \/ LockFree(rl_lock)
      \/ ~(rl_pc[rl_lock] = "wait_sleep" /\ rl_clock < rl_wake[rl_lock])


\* C23: on a rotator built with an empty key list every get_next() call ends
\* with the "No API keys configured" error, also after mark_failed() calls,
\* never with a returned value, and changes neither the rotation index nor
\* the failed set.
C23_EmptyPoolAlwaysRaises ==
  /\ [](kr_keys = << >> =>
          /\ kr_index = 0
          /\ \A k \in 1..Len(kr_returns) :
               /\ kr_returns[k].raised
               /\ kr_returns[k].key = NoKey
               /\ kr_returns[k].failed = kr_returns[k].entry)
  /\ [][kr_keys = << >> /\ Len(kr_returns') > Len(kr_returns) =>
          kr_index' = kr_index /\ kr_failed' = kr_failed]_vars

\* C23 witness: on the empty pool, get_next() raised before and after a
\* mark_failed() call.
C23_Witness ==
  /\ kr_keys = << >>
  /\ \E i, j \in 1..Len(kr_returns) :
       /\ i < j
       /\ kr_returns[i].entry = {}
       /\ kr_returns[j].entry # {}
       /\ kr_returns[j].raised


\* C26: on a pool of distinct keys, a get_next() call that finds at least two
\* pool keys non-failed does not return the key the preceding get_next() call
\* returned, whatever mark_failed() calls came in between.
C26_NoImmediateRepeat ==
  Cardinality(Range(kr_keys)) = Len(kr_keys) =>
    \A k \in 2..Len(kr_returns) :
      Cardinality(Range(kr_keys) \ kr_returns[k].entry) >= 2 =>
        kr_returns[k].key # kr_returns[k - 1].key


\* C24: when the price fetch of compute_stock_alpha fails or yields fewer
\* than two sessions, the task still ends with status success and writes the
\* row, and the row's divergence is the clamped current mean sentiment.
C24_PriceFailureIsZeroChange ==
  [][al_runs' # al_runs /\ al_fetch' \in {"error", "short"} =>
       /\ <<"stock", "success">> \in al_results'
       /\ \E s \in AlphaStocks :
            \E row \in BagToSet(al_metrics') :
              /\ al_metrics' = al_metrics (+) SetToBag({row})
              /\ row.stock_id = s
              /\ row.sentiment_divergence = ClampMetric(CurrentSentiment({s}))]_vars

\* C24 witness: a row written after a failed price fetch, for a stock whose
\* current mean sentiment is not zero.
C24_Witness ==
  /\ al_fetch = "error"
  /\ al_runs = 1
  /\ \E row \in BagToSet(al_metrics) :
       /\ row.stock_id \in AlphaStocks
       /\ row.sentiment_divergence = ClampMetric(CurrentSentiment({row.stock_id}))
       /\ row.sentiment_divergence # 0

\* C25: resolve is case-insensitive and an exact alias match wins: an entity
\* that is an alias of ticker T in any letter case resolves to T, also when
\* an alias of another ticker is part of it or contains it; the result is
\* none exactly when no alias equals the case-folded entity, is contained in
\* it or contains it; resolve_all returns one {entity, ticker} per input, in
\* input order.
C25_ResolveContract ==
  tr_out.called =>
    /\ Len(tr_out.results) = Len(tr_in)
    /\ \A i \in 1..Len(tr_in) :
         LET folded == LowerText(tr_in[i])
             result == tr_out.results[i]
         IN /\ result.entity = tr_in[i]
            /\ \A t \in 1..Len(TICKER_ALIASES) :
                 (\E a \in AliasesOf(t) : LowerText(a) = folded)
                   => result.ticker = Some(TICKER_ALIASES[t].ticker)
            /\ (result.ticker = None) <=>
                 ~\E a \in AllAliases :
                    \/ IsSubstring(LowerText(a), folded)
                    \/ IsSubstring(folded, LowerText(a))

\* C25 witness: resolve_all has answered for "SBI LIFE", an alias of SBILIFE
\* in upper case that contains the alias "SBI" of SBIN, and for "Tata",
\* which no alias matches.
C25_Witness ==
  /\ tr_out.called
  /\ tr_in = << <<"S", "B", "I", " ", "L", "I", "F", "E">>, <<"T", "a", "t", "a">> >>
  /\ tr_out.results[1].ticker = Some("SBILIFE")
  /\ tr_out.results[2].ticker = None

\* C27: across the first attempt and the retries of one dispatched
\* analyze_article unit the classifier is run once and each LLM provider is
\* called at most once: a worker runs the classifier (leaves "idle" with a
\* task) only for an attempt that is no retry, and calls a provider only in
\* such an attempt and only when that attempt has not called it before.
C27_RetryOnlyRewrites ==
  [][\A w \in Workers :
       /\ (sa_pc[w] = "idle" /\ sa_pc'[w] # "idle") => sa_task'[w].retries = 0
       /\ \A p \in Providers :
            (/\ sa_pc[w] \in {p, p \o "_sleep"}
             /\ sa_pc'[w] \notin {p, p \o "_sleep"})
              => /\ sa_task[w].retries = 0
                 /\ sa_local[w][p] = "not_called"]_vars

\* C28: a failure while storing one feed entry affects only that entry: once
\* the execution of fetch_single_feed that scheduled a scrape_article task
\* has ended, the article row the task refers to is in news_articles (the
\* entries stored earlier in the run stay stored).
C28_FailureIsLocal ==
  \A task \in rs_scrapes :
    (\A x \in Executions : rs_exec[x].run # task.article_id[1])
      => \E row \in rs_articles : row.id = task.article_id

\* C29: the current and baseline mean sentiment are unweighted averages over
\* articles, each article of the window counted once whatever the number of
\* its mention rows and of the sector's stocks it mentions: every stored row
\* has the expectation gap and the narrative velocity that follow from the
\* means over the distinct articles.
RECURSIVE SumArticles(_)
SumArticles(articles) ==
  IF articles = {} THEN 0
  ELSE LET a == CHOOSE x \in articles : TRUE
       IN  al_sentiments[a].score + SumArticles(articles \ {a})

ArticlesOf(stock_ids, ages) == { m.article_id : m \in JoinRows(stock_ids, ages) }

ArticleMean(stock_ids, ages) ==
  IF ArticlesOf(stock_ids, ages) = {} THEN 0
  ELSE DivRound(SumArticles(ArticlesOf(stock_ids, ages)),
                Cardinality(ArticlesOf(stock_ids, ages)))

C29_MeansOverArticles ==
  \A row \in BagToSet(al_metrics) :
    LET stock_ids == IF row.stock_id = Null THEN StocksIn(row.sector)
                     ELSE {row.stock_id}
        current == ArticleMean(stock_ids, Day)
    IN  /\ row.expectation_gap =
             ClampMetric(compute_expectation_gap(current, ArticleMean(stock_ids, Week)))
        /\ row.narrative_velocity =
             ClampMetric(compute_narrative_velocity(NewsShare(stock_ids), Abs(current)))

\* C30: when the classifier is unavailable (it yields the zero stub: score
\* 0.0, confidence 0.0) and a provider call has succeeded with
\* sentiment_score s and confidence c, the record to be persisted has
\* sentiment_score s and confidence c.
C30_LlmAloneUsedAsIs ==
  \A w \in Workers :
    LET l == sa_local[w]
    IN  (/\ sa_pc[w] = "persist"
         /\ l.finbert_score = 0 /\ l.finbert_confidence = 0
         /\ l.llm_provider # None
         /\ l[l.llm_provider[1]] = "ok")
          => /\ NewRow(w).sentiment_score = l.llm_result.score
             /\ NewRow(w).confidence = l.llm_result.conf

====
